---- MODULE Spec2Model ----
(***************************************************************************)
(* A model of tache: the rule engine (rules/mod.rs, rules/direct.rs,       *)
(* rules/global.rs) and the async-std front end of local.rs: run, the      *)
(* listener loops it races with select_all, and the per-connection task    *)
(* (read request, build ConnectionMeta, rule lookup, registry lookup,      *)
(* dial, relay with select over two io::copy).                             *)
(***************************************************************************)
EXTENDS Naturals, Sequences, FiniteSets, TLC

(***************************************************************************)
(* Bounds of the model.                                                    *)
(***************************************************************************)
\* longest rule list of a mode drawn as input of lookup
MaxRules == 2
\* connections accepted over the life of the process
MaxConns == 2
\* longest text given to the address parsers, in tokens
MaxText == 5
\* longest read buffer given to the decoder, in tokens
MaxBuf == 6

\* most reads of its socket that give a session frames
MaxReqs == 2

\* the calls the stack holds before it overflows
MaxStack == 3

\* most addresses in a resolver's answer
MaxAnswer == 2

(***************************************************************************)
(* Values.                                                                 *)
(***************************************************************************)
\* Option<T>: None is the empty sequence, Some(x) the one-element sequence
None == <<>>
Some(x) == <<x>>
IsSome(o) == Len(o) = 1
Option(S) == {None} \cup {Some(x) : x \in S}

\* Result<String, Box<dyn Error>> of lookup
Ok(v) == [ok |-> TRUE, v |-> v]
Err(e) == [ok |-> FALSE, v |-> e]

\* host strings a request's URI may carry
Hosts == {"a.com", "b.org"}
\* socket addresses
Addrs == {"10.0.0.1:80"}

\* rules::ConnectionMeta
ConnectionMeta == [udp : BOOLEAN, host : Hosts \cup {""},
                   src_addr : Option(Addrs), dst_addr : Option(Addrs)]

is_host_tcp(cm) == cm.host # "" /\ ~cm.udp
is_host(cm) == cm.host # ""

(***************************************************************************)
(* Rules.  Direct and Global are the two implementations of the Rule      *)
(* trait in the source; the trait is open, so a third kind stands for any  *)
(* other implementation: it answers target for the hosts (and the udp      *)
(* flag) it lists and None for the rest.                                   *)
(***************************************************************************)
Direct == [kind |-> "Direct", hosts |-> {}, udp |-> {}, target |-> ""]
Global == [kind |-> "Global", hosts |-> {}, udp |-> {}, target |-> ""]
HostRule(hs, us, t) == [kind |-> "Impl", hosts |-> hs, udp |-> us, target |-> t]

Direct_run_tcp_only(cm) == IF cm.udp THEN None ELSE Some("DIRECT")
Direct_run(cm) == Some("DIRECT")

Global_run_needs_host(cm) == IF cm.host = "" THEN None ELSE Some("DIRECT")
Global_run(cm) == Some("DIRECT")

Rule_run(rule, cm) ==
    CASE rule.kind = "Direct" -> Direct_run(cm)
      [] rule.kind = "Global" -> Global_run(cm)
      [] OTHER -> IF cm.host \in rule.hosts /\ cm.udp \in rule.udp
                  THEN Some(rule.target) ELSE None

\* the rules a mode given as input may be made of
RuleSet == {Direct, Global,
            HostRule({"a.com"}, BOOLEAN, "PROXY"),
            HostRule({"a.com", ""}, {FALSE}, "REJECT")}

RECURSIVE SeqsUpTo(_, _)
SeqsUpTo(S, n) ==
    IF n = 0 THEN {<<>>}
    ELSE LET shorter == SeqsUpTo(S, n - 1)
         IN shorter \cup {Append(s, x) : s \in {t \in shorter : Len(t) = n - 1}, x \in S}

\* MODE = Vec<Box<dyn Rule>>
Modes == SeqsUpTo(RuleSet, MaxRules)

NoMatchError == "cant't find match rule"

(***************************************************************************)
(* lookup: the for loop over mode.iter(), from rule i on.  The answer      *)
(* carries, beside the Result, the indices of the rules whose run was      *)
(* called.                                                                 *)
(***************************************************************************)
RECURSIVE lookup_from(_, _, _, _)
lookup_from(mode, cm, i, consulted) ==
    IF i > Len(mode)
    THEN [res |-> Err(NoMatchError), consulted |-> consulted]
    ELSE LET r == Rule_run(mode[i], cm)
         IN IF IsSome(r)
            THEN [res |-> Ok(r[1]), consulted |-> Append(consulted, i)]
            ELSE lookup_from(mode, cm, i + 1, Append(consulted, i))

lookup_last(mode, cm) ==
    LET hits == {i \in 1..Len(mode) : IsSome(Rule_run(mode[i], cm))}
    IN IF hits = {}
       THEN [res |-> Err(NoMatchError), consulted |-> [i \in 1..Len(mode) |-> i]]
       ELSE LET i == CHOOSE j \in hits : \A k \in hits : k <= j
            IN [res |-> Ok(Rule_run(mode[i], cm)[1]),
                consulted |-> [j \in 1..Len(mode) |-> j]]

lookup(mode, cm) == lookup_from(mode, cm, 1, <<>>)

\* rules::build_modes: the configuration is not read
build_modes_from_rules(config) ==
    [name \in {"GLOBAL", "DIRECT", "RULE"} |->
        CASE name = "GLOBAL" -> <<Global>>
          [] name = "DIRECT" -> <<Direct>>
          [] OTHER -> IF config.rules = <<>> THEN <<>>
                      ELSE [i \in 1..Len(config.rules) |->
                              HostRule({config.rules[i].source}, BOOLEAN,
                                       config.rules[i].target)]]
build_modes(config) ==
    [name \in {"GLOBAL", "DIRECT", "RULE"} |->
        CASE name = "GLOBAL" -> <<Global>>
          [] name = "DIRECT" -> <<Direct>>
          [] OTHER -> <<>>]

(***************************************************************************)
(* Configuration, as run reads it: the proxies and the inbounds.           *)
(***************************************************************************)
ProxyDirect(n) == [kind |-> "Direct", name |-> n]
ProxySocks5(n) == [kind |-> "Socks5", name |-> n]
InboundHTTP(l) == [kind |-> "HTTP", listen |-> l]
InboundSocks5(l) == [kind |-> "Socks5", listen |-> l]
InboundRedir(l) == [kind |-> "Redir", listen |-> l]
InboundTUN == [kind |-> "TUN", listen |-> "none"]

\* a rule entry of the configuration
RuleConfig(kind, source, target) == [kind |-> kind, source |-> source, target |-> target]

Configs ==
    { [mode |-> "direct", proxies |-> <<ProxyDirect("DIRECT")>>,
       inbounds |-> <<InboundHTTP("sock")>>, rules |-> <<>>],
      [mode |-> "rule", proxies |-> <<ProxySocks5("PROXY")>>,
       inbounds |-> <<InboundHTTP("sock")>>,
       rules |-> <<RuleConfig("DOMAIN", "a.com", "PROXY")>>],
      [mode |-> "global", proxies |-> <<ProxySocks5("PROXY"), ProxyDirect("DIRECT")>>,
       inbounds |-> <<InboundHTTP("domain"), InboundSocks5("sock")>>,
       rules |-> <<RuleConfig("DOMAIN", "a.com", "PROXY"),
                   RuleConfig("DOMAIN", "b.org", "DIRECT")>>],
      [mode |-> "direct", proxies |-> <<ProxyDirect("DIRECT")>>,
       inbounds |-> <<InboundRedir("sock"), InboundHTTP("sock")>>, rules |-> <<>>],
      [mode |-> "direct", proxies |-> <<ProxyDirect("DIRECT")>>,
       inbounds |-> <<InboundHTTP("sock"), InboundTUN>>,
       rules |-> <<RuleConfig("DOMAIN", "b.org", "DIRECT")>>],
      [mode |-> "rule", proxies |-> <<ProxyDirect("DIRECT"), ProxyDirect("DIRECT")>>,
       inbounds |-> <<InboundSocks5("sock")>>,
       rules |-> <<RuleConfig("DOMAIN", "a.com", "DIRECT")>>],
      [mode |-> "direct", proxies |-> <<>>, inbounds |-> <<>>, rules |-> <<>>] }

VARIABLES
    config,      \* the Config run was called with
    run_pc,      \* where run is: "proxies", "modes", "inbounds", "select", "done"
    run_i,       \* index of the inbound entry run sets up next
    run_res,     \* what run returned: "none", "ok", "err", "panic"
    proxies,     \* the registry: outbound name -> index of the entry that registered it
    modes,       \* the mode table: mode name -> rule list
    vf,          \* the listener futures handed to select_all
    conns,       \* the per-connection tasks
    n_accepted,  \* connections accepted so far
    alive,       \* FALSE once a panic has aborted the process
    lk_pc,       \* a lookup call on its own: "call", "ret", "off"
    lk_mode,     \* its mode
    lk_cm,       \* its ConnectionMeta
    lk_out,      \* what it returned
    lk_host,     \* what is_host of its ConnectionMeta returned, None before
    addr_pc,     \* a call of an address parser on its own: "call", "ret", "off"
    addr_fn,     \* the parser called: "Address" or "DomainName"
    addr_s,      \* the text
    addr_out,    \* what it returned
    addr_str,    \* what to_string of the parsed value returned
    addr_back,   \* what parsing that string returned
    addr_ans,    \* what the resolver answered
    addr_res,    \* what the resolution of the parsed value returned
    dec_pc,      \* the caller of decode: "call", "None", "Err", "panic", "off"
    dec_in,      \* the bytes the buffer held at first
    dec_src,     \* the read buffer
    dec_out,     \* what the calls of decode returned, in order
    sess,        \* an HTTP connection session on its own: the dispatcher's fields
    wire,        \* the responses written to its socket, in order
    shut,        \* the write side of its socket: "no", "pending", "done"
    rx,          \* its reads of the socket: how many gave frames, and the last
    waits,       \* the events its task is registered to be woken by
    peer,        \* whether its peer takes what is written: "reads", "stalls"
    result       \* what its poll returned last: "none" while NotReady, "off"

vars == <<config, run_pc, run_i, run_res, proxies, modes, vf, conns, n_accepted,
          alive, lk_pc, lk_mode, lk_cm, lk_out, lk_host,
          addr_pc, addr_fn, addr_s, addr_out, addr_str, addr_back, addr_ans,
          addr_res, dec_pc, dec_in, dec_src, dec_out,
          sess, wire, shut, rx, waits, peer, result>>

run_vars == <<config, run_pc, run_i, run_res, proxies, modes, vf, conns,
              n_accepted, alive>>
lk_vars == <<lk_pc, lk_mode, lk_cm, lk_out, lk_host>>
addr_vars == <<addr_pc, addr_fn, addr_s, addr_out, addr_str, addr_back,
               addr_ans, addr_res>>
dec_vars == <<dec_pc, dec_in, dec_src, dec_out>>
ss_vars == <<sess, wire, shut, rx, waits, peer, result>>

EmptyMap == <<>>
NoOut == [res |-> Err(""), consulted |-> <<>>]
AnyMeta == [udp |-> FALSE, host |-> "", src_addr |-> None, dst_addr |-> None]

(***************************************************************************)
(* A lookup call on its own.                                               *)
(***************************************************************************)
LookupInit ==
    /\ lk_pc = "call"
    /\ lk_mode \in Modes \cup {build_modes(config)[n] : n \in DOMAIN build_modes(config)}
    /\ lk_cm \in ConnectionMeta
    /\ lk_out = NoOut
    /\ lk_host = None

LookupCall ==
    /\ lk_pc = "call"
    /\ lk_out' = lookup(lk_mode, lk_cm)
    /\ lk_pc' = "ret"
    /\ UNCHANGED <<lk_mode, lk_cm, lk_host>>
    /\ UNCHANGED <<run_vars, addr_vars, dec_vars, ss_vars>>

(***************************************************************************)
(* run: the registry.  HashMap::insert under the Direct entry's name; the  *)
(* other kinds of proxy register nothing.                                  *)
(***************************************************************************)
insert(map, k, v) == [n \in DOMAIN map \cup {k} |-> IF n = k THEN v ELSE map[n]]

RECURSIVE setup_proxies(_, _, _)
setup_proxies(ps, i, map) ==
    IF i > Len(ps) THEN map
    ELSE setup_proxies(ps, i + 1,
                       IF ps[i].kind = "Direct" THEN insert(map, ps[i].name, i) ELSE map)

(***************************************************************************)
(* Listener futures.  state: "created" (never polled), "listening" (bound, *)
(* in its accept loop), "ok" / "err" (returned), "dropped" (dropped by     *)
(* run before it returned).                                                *)
(***************************************************************************)
Listener(kind) == [kind |-> kind, state |-> "created"]

\* what to_socket_addrs answers for a listen address: an error, or a number
\* of socket addresses; a literal socket address is itself
ResolveListen(listen) ==
    IF listen = "sock" THEN {[ok |-> TRUE, n |-> 1]}
    ELSE {[ok |-> FALSE, n |-> 0], [ok |-> TRUE, n |-> 1], [ok |-> TRUE, n |-> 2]}

RECURSIVE Repeat(_, _)
Repeat(x, n) == IF n = 0 THEN <<>> ELSE Append(Repeat(x, n - 1), x)

drop_all(fs) == [l \in DOMAIN fs |->
                    IF fs[l].state \in {"created", "listening"}
                    THEN [fs[l] EXCEPT !.state = "dropped"] ELSE fs[l]]

\* the value run returns once select_all has handed it one listener's result
select_all_propagate(res) == res
select_all_result(res) == "err"

(***************************************************************************)
(* Connection tasks.                                                       *)
(***************************************************************************)
ConnIds == 1..MaxConns

\* pc and the task's locals (host: the request's host while the ConnectionMeta
\* is being built; outbound: the name the registry answered for; out_open: the
\* dialed stream is held), and a record of what happened to the connection:
\* found (what lookup returned), cause (why the task ended), dials (calls of
\* dial), in_closed / out_closed (times the inbound / outbound stream was
\* closed), l2r / r2l (how each copy stands: "idle", "run", "eof", "err"),
\* outcome (what select returned), after_miss (a connection had already ended
\* on a registry miss when this one was accepted)
NoConn == [pc |-> "none", host |-> "", found |-> None,
           outbound |-> "", cause |-> "", dials |-> 0,
           in_closed |-> 0, out_open |-> FALSE, out_closed |-> 0,
           l2r |-> "idle", r2l |-> "idle",
           outcome |-> None, after_miss |-> FALSE]

Ended(cn) == cn.pc \in {"done", "panicked"}

\* the end of the task's async block: its locals are dropped, the BufReader
\* with the inbound stream and, when dial had returned it, the outbound stream
drop_inbound_only(cn) ==
    [cn EXCEPT !.in_closed = @ + 1, !.host = ""]
drop_locals(cn) ==
    [cn EXCEPT !.in_closed = @ + 1,
               !.out_closed = IF cn.out_open THEN @ + 1 ELSE @,
               !.out_open = FALSE,
               !.host = ""]

return(cn, cause) == drop_locals([cn EXCEPT !.pc = "done", !.cause = cause])

\* lines 93-110 of the task: rule lookup under "DIRECT", registry get, unwrap
\* of dst_addr; the decision and the values it binds
route_or_default(ms, ps, cm) ==
    LET found == lookup(ms["DIRECT"], cm).res
        name == IF found.ok THEN found.v ELSE "DIRECT"
    IN [found |-> found,
        act |-> IF name \notin DOMAIN ps THEN "notfound"
                ELSE IF ~IsSome(cm.dst_addr) THEN "panic" ELSE "dial",
        name |-> IF name \in DOMAIN ps THEN name ELSE ""]
route_index(ms, ps, cm) ==
    LET found == lookup(ms["DIRECT"], cm).res
    IN [found |-> found,
        act |-> IF ~found.ok THEN "nomatch"
                ELSE IF found.v \notin DOMAIN ps THEN "panic"
                ELSE IF ~IsSome(cm.dst_addr) THEN "panic"
                ELSE "dial",
        name |-> IF found.ok /\ found.v \in DOMAIN ps THEN found.v ELSE ""]
\* the mode of the configuration picks the entry of the mode table
route_by_mode(ms, ps, cm) ==
    LET key == CASE config.mode = "global" -> "GLOBAL"
                 [] config.mode = "rule" -> "RULE"
                 [] OTHER -> "DIRECT"
        found == lookup(ms[key], cm).res
    IN [found |-> found,
        act |-> IF ~found.ok THEN "nomatch"
                ELSE IF found.v \notin DOMAIN ps THEN "notfound"
                ELSE IF ~IsSome(cm.dst_addr) THEN "panic"
                ELSE "dial",
        name |-> IF found.ok /\ found.v \in DOMAIN ps THEN found.v ELSE ""]
route(ms, ps, cm) ==
    LET found == lookup(ms["DIRECT"], cm).res
    IN [found |-> found,
        act |-> IF ~found.ok THEN "nomatch"
                ELSE IF found.v \notin DOMAIN ps THEN "notfound"
                ELSE IF ~IsSome(cm.dst_addr) THEN "panic"
                ELSE "dial",
        name |-> IF found.ok /\ found.v \in DOMAIN ps THEN found.v ELSE ""]

\* futures::future::select over the two copies: ready when either is
join_ready(l, r) == l # "run" /\ r # "run"
select_ready(l, r) == l # "run" \/ r # "run"

\* what select hands back: the side that finished and its io::Result
relay_outcome_swallowed(side, st) == [side |-> side, ok |-> TRUE]
relay_outcome(side, st) == [side |-> side, ok |-> st = "eof"]

(***************************************************************************)
(* run, up to select_all.                                                  *)
(***************************************************************************)
RunInit ==
    /\ config \in Configs
    /\ run_pc = "proxies"
    /\ run_i = 1
    /\ run_res = "none"
    /\ proxies = EmptyMap
    /\ modes = EmptyMap
    /\ vf = <<>>
    /\ conns = [c \in ConnIds |-> NoConn]
    /\ n_accepted = 0
    /\ alive = TRUE

\* the for loop over config.proxies
RunSetupProxies ==
    /\ alive /\ run_pc = "proxies"
    /\ proxies' = setup_proxies(config.proxies, 1, proxies)
    /\ run_pc' = "modes"
    /\ UNCHANGED <<config, run_i, run_res, modes, vf, conns, n_accepted, alive>>
    /\ UNCHANGED <<lk_vars, addr_vars, dec_vars, ss_vars>>

\* build_modes(&config)?: it returns Ok in every case
RunBuildModes_deferred ==
    /\ alive /\ run_pc = "modes"
    /\ run_pc' = "inbounds"
    /\ UNCHANGED <<config, run_i, run_res, proxies, modes, vf, conns, n_accepted, alive>>
    /\ UNCHANGED <<lk_vars, addr_vars, dec_vars, ss_vars>>
RunBuildModes ==
    /\ alive /\ run_pc = "modes"
    /\ modes' = build_modes(config)
    /\ run_pc' = "inbounds"
    /\ UNCHANGED <<config, run_i, run_res, proxies, vf, conns, n_accepted, alive>>
    /\ UNCHANGED <<lk_vars, addr_vars, dec_vars, ss_vars>>

\* one turn of the for loop over config.inbounds: resolve the listen address
\* (with ?), push one future per socket address; a TUN entry pushes one
RunSetupInbound ==
    /\ alive /\ run_pc = "inbounds" /\ run_i <= Len(config.inbounds)
    /\ LET inbound == config.inbounds[run_i]
       IN IF inbound.kind = "TUN"
          THEN /\ vf' = Append(vf, Listener("TUN"))
               /\ run_i' = run_i + 1
               /\ UNCHANGED <<run_pc, run_res>>
          ELSE \E addrs \in ResolveListen(inbound.listen) :
                 IF ~addrs.ok
                 THEN /\ run_pc' = "done"
                      /\ run_res' = "err"
                      /\ vf' = drop_all(vf)
                      /\ UNCHANGED run_i
                 ELSE /\ vf' = vf \o Repeat(Listener(inbound.kind), addrs.n)
                      /\ run_i' = run_i + 1
                      /\ UNCHANGED <<run_pc, run_res>>
    /\ UNCHANGED <<config, proxies, modes, conns, n_accepted, alive>>
    /\ UNCHANGED <<lk_vars, addr_vars, dec_vars, ss_vars>>

\* select_all(vf.into_iter()): it asserts that vf is not empty
RunSelectAll ==
    /\ alive /\ run_pc = "inbounds" /\ run_i > Len(config.inbounds)
    /\ IF vf = <<>>
       THEN run_pc' = "done" /\ run_res' = "panic"
       ELSE run_pc' = "select" /\ UNCHANGED run_res
    /\ UNCHANGED <<config, run_i, proxies, modes, vf, conns, n_accepted, alive>>
    /\ UNCHANGED <<lk_vars, addr_vars, dec_vars, ss_vars>>

(***************************************************************************)
(* The listener futures, polled by select_all inside run: the poll in      *)
(* which one of them returns is the poll in which select_all returns, and  *)
(* run goes on to its last lines with no further await.                    *)
(***************************************************************************)
\* a listener that returns and leaves run and the other listeners going
listener_exit_alone(l, res) ==
    /\ vf' = [vf EXCEPT ![l].state = res]
    /\ UNCHANGED <<run_pc, run_res>>
\* listener l returns res: select_all is ready, the other futures are dropped
listener_exit(l, res) ==
    /\ vf' = [drop_all(vf) EXCEPT ![l].state = res]
    /\ run_pc' = "done"
    /\ run_res' = select_all_result(res)

\* the first poll of a listener future: TcpListener::bind(..).await?; the
\* futures are polled in the order of vf.  single_run_tun returns Ok at once
ListenerBind(l) ==
    /\ alive /\ run_pc = "select"
    /\ vf[l].state = "created"
    /\ \A k \in 1..(l - 1) : vf[k].state # "created"
    /\ IF vf[l].kind = "TUN"
       THEN listener_exit(l, "ok")
       ELSE \E bound \in BOOLEAN :
              IF bound
              THEN /\ vf' = [vf EXCEPT ![l].state = "listening"]
                   /\ UNCHANGED <<run_pc, run_res>>
              ELSE listener_exit(l, "err")
    /\ UNCHANGED <<config, run_i, proxies, modes, conns, n_accepted, alive>>
    /\ UNCHANGED <<lk_vars, addr_vars, dec_vars, ss_vars>>

\* the registry handed to the first task rather than cloned for it
ListenerAccept_moves(l) ==
    /\ alive /\ run_pc = "select"
    /\ vf[l].state = "listening"
    /\ n_accepted < MaxConns
    /\ n_accepted' = n_accepted + 1
    /\ LET c == n_accepted + 1
           fresh == [NoConn EXCEPT
                        !.after_miss = \E d \in ConnIds : conns[d].cause = "notfound"]
       IN conns' = [conns EXCEPT ![c] =
                      IF vf[l].kind = "HTTP"
                      THEN [fresh EXCEPT !.pc = "read"]
                      ELSE return(fresh, "unhandled")]
    /\ proxies' = EmptyMap
    /\ UNCHANGED <<config, run_pc, run_i, run_res, modes, vf, alive>>
    /\ UNCHANGED <<lk_vars, addr_vars, dec_vars, ss_vars>>
\* incoming().next() yields Some(Ok(inbound)): the HTTP listener spawns the
\* connection task; the SOCKS listener spawns an empty task and the redir
\* listener none, and the stream is dropped at the end of the loop body
ListenerAccept(l) ==
    /\ alive /\ run_pc = "select"
    /\ vf[l].state = "listening"
    /\ n_accepted < MaxConns
    /\ n_accepted' = n_accepted + 1
    /\ LET c == n_accepted + 1
           fresh == [NoConn EXCEPT
                        !.after_miss = \E d \in ConnIds : conns[d].cause = "notfound"]
       IN conns' = [conns EXCEPT ![c] =
                      IF vf[l].kind = "HTTP"
                      THEN [fresh EXCEPT !.pc = "read"]
                      ELSE return(fresh, "unhandled")]
    /\ UNCHANGED <<config, run_pc, run_i, run_res, proxies, modes, vf, alive>>
    /\ UNCHANGED <<lk_vars, addr_vars, dec_vars, ss_vars>>

\* incoming().next() yields Some(Err(_)) or None: the while let ends, Ok(())
ListenerAcceptEnd(l) ==
    /\ alive /\ run_pc = "select"
    /\ vf[l].state = "listening"
    /\ listener_exit(l, "ok")
    /\ UNCHANGED <<config, run_i, proxies, modes, conns, n_accepted, alive>>
    /\ UNCHANGED <<lk_vars, addr_vars, dec_vars, ss_vars>>

(***************************************************************************)
(* The connection task spawned by the HTTP listener.  pc: "read" (awaiting *)
(* read_http), "resolve" (in build_connection_meta, awaiting               *)
(* to_socket_addrs), "dial" (awaiting dial), "relay" (awaiting select),    *)
(* "done" (returned), "panicked".                                          *)
(***************************************************************************)
\* read_http returns: an error, a request without a host, or one with a host
ReadResults == {"err", "nohost"} \cup Hosts

ConnRead(c) ==
    /\ alive /\ conns[c].pc = "read"
    /\ \E r \in ReadResults :
         conns' = [conns EXCEPT ![c] =
                     IF r = "err" THEN return(@, "read")
                     ELSE IF r = "nohost" THEN return(@, "meta")
                     ELSE [@ EXCEPT !.pc = "resolve", !.host = r]]
    /\ UNCHANGED <<config, run_pc, run_i, run_res, proxies, modes, vf, n_accepted, alive>>
    /\ UNCHANGED <<lk_vars, addr_vars, dec_vars, ss_vars>>

\* a panic in a spawned task: the executor of the build either aborts the
\* process or loses the task alone
PanicOutcomes == {"abort", "task"}

\* to_socket_addrs and peer_addr answer; the ConnectionMeta is built, the
\* rule lookup and the registry get follow with no await, then
\* dst_addr.unwrap() and the call of dial
ConnRoute(c) ==
    /\ alive /\ conns[c].pc = "resolve"
    /\ \E dst \in Option(Addrs), src \in Option(Addrs), how \in PanicOutcomes :
         LET cm == [udp |-> FALSE, host |-> conns[c].host,
                    src_addr |-> src, dst_addr |-> dst]
             r == route(modes, proxies, cm)
             cn == [conns[c] EXCEPT !.found = Some(r.found)]
         IN CASE r.act = "nomatch" ->
                   /\ conns' = [conns EXCEPT ![c] = return(cn, "nomatch")]
                   /\ UNCHANGED alive
              [] r.act = "notfound" ->
                   /\ conns' = [conns EXCEPT ![c] = return(cn, "notfound")]
                   /\ UNCHANGED alive
              [] r.act = "panic" ->
                   /\ conns' = [conns EXCEPT ![c] =
                                  IF how = "task"
                                  THEN drop_locals([cn EXCEPT !.pc = "panicked",
                                                              !.cause = "unwrap"])
                                  ELSE [cn EXCEPT !.pc = "panicked", !.cause = "unwrap"]]
                   /\ alive' = (how = "task")
              [] OTHER ->
                   /\ conns' = [conns EXCEPT ![c] =
                                  [cn EXCEPT !.pc = "dial", !.outbound = r.name,
                                             !.dials = @ + 1]]
                   /\ UNCHANGED alive
    /\ UNCHANGED <<config, run_pc, run_i, run_res, proxies, modes, vf, n_accepted>>
    /\ UNCHANGED <<lk_vars, addr_vars, dec_vars, ss_vars>>

\* dial returns: the outbound stream, or an error
ConnDial(c) ==
    /\ alive /\ conns[c].pc = "dial"
    /\ \E ok \in BOOLEAN :
         conns' = [conns EXCEPT ![c] =
                     IF ok
                     THEN [@ EXCEPT !.pc = "relay", !.out_open = TRUE,
                                    !.l2r = "run", !.r2l = "run"]
                     ELSE return(@, "dial")]
    /\ UNCHANGED <<config, run_pc, run_i, run_res, proxies, modes, vf, n_accepted, alive>>
    /\ UNCHANGED <<lk_vars, addr_vars, dec_vars, ss_vars>>

\* a poll of select over the two io::copy futures in which the copy on side
\* ends: its reader reports end-of-stream, or a read or write fails (a poll
\* in which a copy only moves bytes changes nothing here).  select returns
\* in the poll in which a copy does
CopyResults == {"eof", "err"}

ConnRelay(c, side) ==
    /\ alive /\ conns[c].pc = "relay"
    /\ (IF side = "Left" THEN conns[c].l2r ELSE conns[c].r2l) = "run"
    /\ \E r \in CopyResults :
         LET cn == conns[c]
             ended == IF side = "Left" THEN [cn EXCEPT !.l2r = r]
                      ELSE [cn EXCEPT !.r2l = r]
         IN conns' = [conns EXCEPT ![c] =
                        IF select_ready(ended.l2r, ended.r2l)
                        THEN return([ended EXCEPT
                                       !.outcome = Some(relay_outcome(side, r))],
                                    "relay")
                        ELSE ended]
    /\ UNCHANGED <<config, run_pc, run_i, run_res, proxies, modes, vf, n_accepted, alive>>
    /\ UNCHANGED <<lk_vars, addr_vars, dec_vars, ss_vars>>

(***************************************************************************)
(* Specifications.                                                         *)
(***************************************************************************)
LkOff ==
    /\ lk_pc = "off" /\ lk_mode = <<>> /\ lk_cm = AnyMeta /\ lk_out = NoOut
    /\ lk_host = None

\* no call of an address parser on its own
AddrOff ==
    /\ addr_pc = "off" /\ addr_fn = "" /\ addr_s = <<>> /\ addr_out = Err("")
    /\ addr_str = Err("") /\ addr_back = Err("")
    /\ addr_ans = Err("") /\ addr_res = Err("")

\* no decoder on its own
DecOff ==
    /\ dec_pc = "off" /\ dec_in = <<>> /\ dec_src = <<>> /\ dec_out = <<>>

\* no read of the socket has returned anything
NoReads == [n |-> 0, last |-> <<>>]

\* no session on its own
NoSession ==
    [flags |-> {}, ka_expire |-> 0, ka_timer |-> None, read_buf |-> <<>>,
     write_buf |-> <<>>, state |-> "None", messages |-> <<>>, error |-> None,
     upgrade |-> FALSE, cfg |-> [keep_alive |-> 0, ka_enabled |-> FALSE]]
SessOff ==
    /\ sess = NoSession /\ wire = <<>> /\ shut = "no" /\ rx = NoReads
    /\ waits = {} /\ peer = "reads" /\ result = "off"

Init == RunInit /\ LkOff /\ AddrOff /\ DecOff /\ SessOff

ListenerNext ==
    \/ \E l \in DOMAIN vf : ListenerBind(l)
    \/ \E l \in DOMAIN vf : ListenerAccept(l)
    \/ \E l \in DOMAIN vf : ListenerAcceptEnd(l)

ConnNext ==
    \/ \E c \in ConnIds : ConnRead(c)
    \/ \E c \in ConnIds : ConnRoute(c)
    \/ \E c \in ConnIds : ConnDial(c)
    \/ \E c \in ConnIds, side \in {"Left", "Right"} : ConnRelay(c, side)

Next ==
    \/ RunSetupProxies
    \/ RunBuildModes
    \/ RunSetupInbound
    \/ RunSelectAll
    \/ ListenerNext
    \/ ConnNext

Spec == Init /\ [][Next]_vars

\* lookup as a function of its arguments
InitLookup ==
    /\ RunInit
    /\ LookupInit
    /\ AddrOff /\ DecOff /\ SessOff

\* cm.is_host() of the ConnectionMeta of the call
IsHostCall ==
    /\ lk_pc \in {"call", "ret"}
    /\ lk_host = None
    /\ lk_host' = Some(is_host(lk_cm))
    /\ UNCHANGED <<lk_pc, lk_mode, lk_cm, lk_out>>
    /\ UNCHANGED <<run_vars, addr_vars, dec_vars, ss_vars>>

SpecLookup == InitLookup /\ [][LookupCall \/ IsHostCall]_vars

\* single_run_http as a function of its arguments: one HTTP listener future,
\* polled by select_all, over a mode table and a registry given as inputs
HttpModeInputs ==
    {[build_modes(cfg) EXCEPT !["DIRECT"] = m] :
        cfg \in Configs,
        m \in {<<>>, <<Direct>>,
               <<HostRule({"a.com"}, BOOLEAN, "PROXY"), Direct>>}}

HttpProxyInputs ==
    {EmptyMap, insert(EmptyMap, "DIRECT", 1),
     insert(insert(EmptyMap, "DIRECT", 1), "PROXY", 2)}

InitHttp ==
    /\ config \in {[cfg EXCEPT !.mode = m] :
                      cfg \in {k \in Configs : k.inbounds = <<InboundHTTP("sock")>>
                                                /\ k.mode = "direct"},
                      m \in {"direct", "rule", "global"}}
    /\ run_pc = "select"
    /\ run_i = 2
    /\ run_res = "none"
    /\ proxies \in HttpProxyInputs
    /\ modes \in HttpModeInputs
    /\ vf = <<Listener("HTTP")>>
    /\ conns = [c \in ConnIds |-> NoConn]
    /\ n_accepted = 0
    /\ alive = TRUE
    /\ LkOff /\ AddrOff /\ DecOff /\ SessOff

NextHttp ==
    \/ ListenerNext
    \/ ConnNext

SpecHttp == InitHttp /\ [][NextHttp]_vars

(***************************************************************************)
(* utils.rs: Address::from_str and DomainName::from_str.  A text is a      *)
(* sequence of tokens: the colon, and runs of characters that hold no      *)
(* colon (two such runs never stand side by side: they would be one run).  *)
(***************************************************************************)
Colon == ":"
\* a host name, an IPv4 literal, three decimal numbers and a run that is
\* not a number
Runs == {"a.com", "10.0.0.1", "80", "65535", "65536", "8o"}
Tokens == Runs \cup {Colon}

\* the number a run spells in decimal, None when it is not all digits
Decimal(run) ==
    CASE run = "80" -> Some(80)
      [] run = "65535" -> Some(65535)
      [] run = "65536" -> Some(65536)
      [] OTHER -> None

Texts == {s \in SeqsUpTo(Tokens, MaxText) :
            \A i \in 1..(Len(s) - 1) : s[i] = Colon \/ s[i + 1] = Colon}

\* str::parse::<u16> of a piece of text that holds no colon
parse_u16(part) ==
    IF Len(part) = 1 /\ IsSome(Decimal(part[1])) /\ Decimal(part[1])[1] < 2^16
    THEN Ok(Decimal(part[1])[1])
    ELSE Err("ParseIntError")

\* str::parse::<SocketAddr>: an IP literal, a colon and a port
parse_SocketAddr(s) ==
    IF Len(s) = 3 /\ s[1] = "10.0.0.1" /\ s[2] = Colon /\ parse_u16(<<s[3]>>).ok
    THEN Ok([variant |-> "SocketAddr", host |-> <<s[1]>>, port |-> parse_u16(<<s[3]>>).v])
    ELSE Err("AddrParseError")

\* str::split(':'): the pieces between the colons, in order
RECURSIVE split(_)
split(s) ==
    IF s = <<>> THEN << <<>> >>
    ELSE LET rest == split(Tail(s))
         IN IF Head(s) = Colon THEN << <<>> >> \o rest
            ELSE << <<Head(s)>> \o rest[1] >> \o Tail(rest)

\* DomainName::from_str: the first two pieces of split(':')
DomainName_from_str(s) ==
    LET sp == split(s)
    IN IF Len(sp) >= 2
       THEN IF parse_u16(sp[2]).ok
            THEN Ok([variant |-> "DomainName", host |-> sp[1], port |-> parse_u16(sp[2]).v])
            ELSE Err("DomainNameError")
       ELSE Err("DomainNameError")

\* Address::from_str: a socket address when the text parses as one, else the
\* first two pieces of split(':')
Address_from_str(s) ==
    IF parse_SocketAddr(s).ok THEN parse_SocketAddr(s)
    ELSE LET sp == split(s)
         IN IF Len(sp) >= 2
            THEN IF parse_u16(sp[2]).ok
                 THEN Ok([variant |-> "DomainName", host |-> sp[1],
                          port |-> parse_u16(sp[2]).v])
                 ELSE Err("AddressError")
            ELSE Err("AddressError")

AddrInit ==
    /\ addr_pc = "call"
    /\ addr_fn \in {"Address", "DomainName"}
    /\ addr_s \in Texts
    /\ addr_out = Err("")
    /\ addr_str = Err("") /\ addr_back = Err("")
    /\ addr_ans = Err("") /\ addr_res = Err("")

\* s.parse::<Address>() or s.parse::<DomainName>()
AddrParse ==
    /\ addr_pc = "call"
    /\ addr_out' = IF addr_fn = "Address" THEN Address_from_str(addr_s)
                   ELSE DomainName_from_str(addr_s)
    /\ addr_pc' = "ret"
    /\ UNCHANGED <<addr_fn, addr_s, addr_str, addr_back, addr_ans, addr_res>>
    /\ UNCHANGED <<run_vars, lk_vars, dec_vars, ss_vars>>

\* the decimal text of a port
ToDecimal(n) == IF n = 80 THEN "80" ELSE "65535"

\* Display for DomainName: "{}:{}" of the name and the port
DomainName_to_string(d) == Ok(d.host \o <<Colon, ToDecimal(d.port)>>)

\* Display for Address: fmt formats self with "{}", which calls fmt of
\* Address again; no call returns before the stack is used up, and the
\* process is then killed
RECURSIVE Address_fmt(_, _)
Address_fmt(a, depth) ==
    IF depth >= MaxStack THEN Err("StackOverflow")
    ELSE Address_fmt(a, depth + 1)

Address_to_string(a) == Address_fmt(a, 0)

\* value.to_string() and the parse of that string by the parser that gave
\* the value
AddrShow ==
    /\ addr_pc = "ret"
    /\ addr_out.ok
    /\ LET str == IF addr_fn = "Address" THEN Address_to_string(addr_out.v)
                  ELSE DomainName_to_string(addr_out.v)
       IN /\ addr_str' = str
          /\ addr_back' = IF ~str.ok THEN Err("")
                          ELSE IF addr_fn = "Address" THEN Address_from_str(str.v)
                          ELSE DomainName_from_str(str.v)
          /\ addr_pc' = IF str.ok THEN "shown" ELSE "overflow"
    /\ UNCHANGED <<addr_fn, addr_s, addr_out, addr_ans, addr_res>>
    /\ UNCHANGED <<run_vars, lk_vars, dec_vars, ss_vars>>

\* what a resolver answers for a name: an error, or a list of IP addresses,
\* which may be empty
IPs == {"10.0.0.1", "10.0.0.2"}
NoAnswer == [ok |-> FALSE, ips |-> <<>>]
Answer(ips) == [ok |-> TRUE, ips |-> ips]
Answers == {NoAnswer} \cup {Answer(ips) : ips \in SeqsUpTo(IPs, MaxAnswer)}

SocketAddr_new(ip, port) == [ip |-> ip, port |-> port]

\* the socket addresses of a list of IP addresses and a port
WithPort(ips, port) ==
    IF ips = <<>> THEN <<>>
    ELSE [i \in 1..Len(ips) |-> SocketAddr_new(ips[i], port)]

\* (host, port).to_socket_addrs() of the standard library: a host that is an
\* IP literal is answered without a lookup, any other by the system
\* resolver, whose error is returned and whose addresses all take the port
std_to_socket_addrs(host, port, ans) ==
    IF host = <<"10.0.0.1">> THEN Ok(<<SocketAddr_new(host[1], port)>>)
    ELSE IF ans.ok
         THEN Ok(WithPort(ans.ips, port))
         ELSE Err("io")

\* Address::to_socket_addrs
Address_to_socket_addrs(a, ans) ==
    IF a.variant = "SocketAddr" THEN Ok(<<SocketAddr_new(a.host[1], a.port)>>)
    ELSE std_to_socket_addrs(a.host, a.port, ans)

\* dns_resolver::inner_resolve over the answer of lookup_ip
inner_resolve(addr, port, ans) ==
    IF ~ans.ok THEN Err("dns resolve error")
    ELSE LET vaddr == WithPort(ans.ips, port)
         IN IF vaddr = <<>> THEN Err("resolved to empty address")
            ELSE Ok(vaddr)

\* address.to_socket_addrs() of a parsed Address
AddrToSocketAddrs ==
    /\ addr_pc = "ret"
    /\ addr_fn = "Address"
    /\ addr_out.ok
    /\ \E ans \in Answers :
          /\ addr_ans' = ans
          /\ addr_res' = Address_to_socket_addrs(addr_out.v, ans)
    /\ addr_pc' = "to_socket_addrs"
    /\ UNCHANGED <<addr_fn, addr_s, addr_out, addr_str, addr_back>>
    /\ UNCHANGED <<run_vars, lk_vars, dec_vars, ss_vars>>

\* resolve(context, name, port) of a parsed domain name
AddrResolve ==
    /\ addr_pc = "ret"
    /\ addr_out.ok
    /\ addr_out.v.variant = "DomainName"
    /\ \E ans \in Answers :
          /\ addr_ans' = ans
          /\ addr_res' = inner_resolve(addr_out.v.host, addr_out.v.port, ans)
    /\ addr_pc' = "resolve"
    /\ UNCHANGED <<addr_fn, addr_s, addr_out, addr_str, addr_back>>
    /\ UNCHANGED <<run_vars, lk_vars, dec_vars, ss_vars>>

NextAddress == AddrParse \/ AddrShow \/ AddrToSocketAddrs \/ AddrResolve

(***************************************************************************)
(* protocol/http/http.rs: Http::decode.  The read buffer is a sequence of  *)
(* tokens: a request line ("GET /x HTTP/1.1\r\n", or the same with         *)
(* HTTP/1.0), a Host header line, the empty line "\r\n", and a zero byte.  *)
(***************************************************************************)
Bytes == {"GET11", "GET10", "Host", "CRLF", "B"}
Buffers == SeqsUpTo(Bytes, MaxBuf)

\* the headers array handed to httparse
MaxHeaders == 16

Status(kind, amt, version, headers) ==
    [kind |-> kind, amt |-> amt, version |-> version, headers |-> headers]

\* httparse: the header lines from token i on, up to the empty line
RECURSIVE parse_headers(_, _, _, _)
parse_headers(src, i, version, hs) ==
    IF i > Len(src) THEN Status("Partial", 0, version, hs)
    ELSE IF src[i] = "CRLF" THEN Status("Complete", i, version, hs)
    ELSE IF src[i] # "Host" THEN Status("Err", 0, version, hs)
    ELSE IF Len(hs) >= MaxHeaders THEN Status("Err", 0, version, hs)
    ELSE parse_headers(src, i + 1, version, Append(hs, src[i]))

\* httparse::Request::parse: empty lines before the request line are
\* skipped, then the request line, then the headers
RECURSIVE parse_from(_, _)
parse_from(src, i) ==
    IF i > Len(src) THEN Status("Partial", 0, 0, <<>>)
    ELSE IF src[i] = "CRLF" THEN parse_from(src, i + 1)
    ELSE IF src[i] = "GET11" THEN parse_headers(src, i + 1, 1, <<>>)
    ELSE IF src[i] = "GET10" THEN parse_headers(src, i + 1, 0, <<>>)
    ELSE Status("Err", 0, 0, <<>>)

parse(src) == parse_from(src, 1)

NoReq == [version |-> 0, headers |-> <<>>, body |-> <<>>]
Decoded(ret, req, src) == [ret |-> ret, req |-> req, src |-> src]

\* Http::decode: what it returns ("None", "Some", "Err", or "panic" for the
\* unwrap of a missing host header), the request, and the buffer it leaves
decode_any_version(src) ==
    LET status == parse(src)
    IN IF status.kind = "Err" THEN Decoded("Err", NoReq, src)
       ELSE IF status.kind = "Partial" THEN Decoded("None", NoReq, src)
       ELSE IF \A k \in DOMAIN status.headers : status.headers[k] # "Host"
            THEN Decoded("panic", NoReq, src)
       ELSE Decoded("Some",
                    [version |-> 1, headers |-> status.headers,
                     body |-> SubSeq(src, status.amt + 1, Len(src))],
                    <<>>)
decode(src) ==
    LET status == parse(src)
    IN IF status.kind = "Err" THEN Decoded("Err", NoReq, src)
       ELSE IF status.kind = "Partial" THEN Decoded("None", NoReq, src)
       ELSE IF status.version # 1 THEN Decoded("Err", NoReq, src)
       ELSE IF \A k \in DOMAIN status.headers : status.headers[k] # "Host"
            THEN Decoded("panic", NoReq, src)
       ELSE Decoded("Some",
                    [version |-> 1, headers |-> status.headers,
                     body |-> SubSeq(src, status.amt + 1, Len(src))],
                    <<>>)

\* the buffer of a connection and the caller of decode: a framed reader
\* calls decode again after each request, until it answers None or fails
DecInit ==
    /\ dec_pc = "call"
    /\ dec_in \in Buffers
    /\ dec_src = dec_in
    /\ dec_out = <<>>

DecodeCall ==
    /\ dec_pc = "call"
    /\ LET d == decode(dec_src)
       IN /\ dec_src' = d.src
          /\ dec_out' = Append(dec_out, [ret |-> d.ret, req |-> d.req])
          /\ dec_pc' = IF d.ret = "Some" THEN "call" ELSE d.ret
    /\ UNCHANGED dec_in
    /\ UNCHANGED <<run_vars, lk_vars, addr_vars, ss_vars>>

(***************************************************************************)
(* The parsers and the decoder as functions of their arguments.            *)
(***************************************************************************)
NoConfig == [mode |-> "direct", proxies |-> <<>>, inbounds |-> <<>>, rules |-> <<>>]

\* run is not called
RunOff ==
    /\ config = NoConfig
    /\ run_pc = "off" /\ run_i = 1 /\ run_res = "none"
    /\ proxies = EmptyMap /\ modes = EmptyMap
    /\ vf = <<>>
    /\ conns = [c \in ConnIds |-> NoConn]
    /\ n_accepted = 0
    /\ alive = TRUE

InitAddress == RunOff /\ LkOff /\ DecOff /\ SessOff /\ AddrInit

SpecAddress == InitAddress /\ [][NextAddress]_vars

InitDecode == RunOff /\ LkOff /\ AddrOff /\ SessOff /\ DecInit

SpecDecode == InitDecode /\ [][DecodeCall]_vars

(***************************************************************************)
(* protocol/http/service.rs: the HTTP/1 connection session,                *)
(* HttpServiceHandlerResponse, and its poll.  Instants are held as offsets *)
(* from the present, in seconds: a Delay is due when its deadline is 0,    *)
(* and Tick moves the present.  A request carries no body, so the codec    *)
(* yields no Chunk and the session holds no payload.                       *)
(***************************************************************************)
\* ServiceConfig::new(KeepAlive::Timeout(5), 5000, 0)
keep_alive == 5
client_timeout == 5000
client_disconnect == 0

\* ServiceConfig::new on its KeepAlive argument: the keep-alive period in
\* seconds, 0 for none, and whether keep-alive is enabled
KeepAlive_Timeout(val) == [keep_alive |-> val, ka_enabled |-> TRUE]
KeepAlive_Disabled == [keep_alive |-> 0, ka_enabled |-> FALSE]

\* the configuration HttpProxyService hands to every session
HttpProxyService_cfg == KeepAlive_Timeout(keep_alive)

keep_alive_enabled_always(cfg) == TRUE
keep_alive_enabled(cfg) == cfg.ka_enabled

\* tokio::timer::Delay: its deadline and whether the task is registered to
\* be notified when it is reached (the last poll answered NotReady)
Delay_new(deadline) == [deadline |-> deadline, notify |-> FALSE]
Delay_poll(delay) == [delay EXCEPT !.notify = (delay.deadline > 0)]

keep_alive_timer(cfg) ==
    IF cfg.keep_alive # 0 THEN Some(Delay_new(cfg.keep_alive)) ELSE None
keep_alive_expire(cfg) == IF cfg.keep_alive # 0 THEN Some(cfg.keep_alive) ELSE None
client_timer ==
    IF client_timeout # 0 THEN Some(Delay_new(client_timeout \div 1000)) ELSE None
client_disconnect_timer ==
    IF client_disconnect # 0 THEN Some(client_disconnect \div 1000) ELSE None

\* HttpServiceHandlerResponse::new; cfg is the configuration and timeout the
\* Delay its caller hands it, upgrade whether the session has an upgrade
\* handler
new(cfg, timeout, upgrade) ==
    LET timer == IF IsSome(timeout) THEN timeout ELSE keep_alive_timer(cfg)
    IN [cfg |-> cfg,
        flags |-> IF keep_alive_enabled(cfg) THEN {"KEEPALIVE"} ELSE {},
        ka_expire |-> IF IsSome(timer) THEN timer[1].deadline ELSE 0,
        ka_timer |-> timer,
        read_buf |-> <<>>,
        write_buf |-> <<>>,
        state |-> "None",
        messages |-> <<>>,
        error |-> None,
        upgrade |-> upgrade]

can_read_always(s) == TRUE
can_read(s) == "READ_DISCONNECT" \notin s.flags

client_disconnected_read(s) == [s EXCEPT !.flags = @ \cup {"READ_DISCONNECT"}]
client_disconnected(s) ==
    [s EXCEPT !.flags = @ \cup {"READ_DISCONNECT", "WRITE_DISCONNECT"}]

\* send_response: the response is encoded into the write buffer
send_response(s, status) == [s EXCEPT !.write_buf = Append(@, status)]

\* timer.reset(deadline); let _ = timer.poll(): the one Delay takes the new
\* deadline
reset_beside(ka_timer, deadline) ==
    ka_timer \o <<Delay_poll(Delay_new(deadline))>>
reset(ka_timer, deadline) == <<Delay_poll(Delay_new(deadline))>>

\* poll_keepalive answers the session and Ok or the error it returns
KA(s, res) == [s |-> s, res |-> res]

\* the timer is due during shutdown: the connection is dropped
shutdown_timeout_rearm(s) ==
    KA([s EXCEPT !.ka_timer = reset(@, keep_alive)], "Ok")
shutdown_timeout(s) == KA(s, "DisconnectTimeout")

\* the expiry begins a shutdown that poll then carries out
idle_timeout_graceful(s) == KA([s EXCEPT !.flags = @ \cup {"SHUTDOWN"}], "Ok")
\* the keep-alive timer is due after a request and nothing is outstanding
idle_timeout(s) ==
    LET s1 == [s EXCEPT !.flags = @ \cup {"SHUTDOWN"}]
    IN IF IsSome(client_disconnect_timer)
       THEN KA([s1 EXCEPT !.ka_timer = reset(@, client_disconnect_timer[1])], "Ok")
       ELSE KA([s1 EXCEPT !.flags = @ \cup {"WRITE_DISCONNECT"}], "Ok")

\* the timer is due before the first request: 408
slow_request_silent(s) ==
    KA([s EXCEPT !.flags = @ \cup {"STARTED", "SHUTDOWN"}, !.state = "None"], "Ok")
slow_request(s) ==
    KA([send_response(s, 408) EXCEPT !.flags = @ \cup {"STARTED", "SHUTDOWN"},
                                     !.state = "None"],
       "Ok")

\* the timer is due while a response is outstanding: a new keep-alive period
busy_timeout_unstarted(s) ==
    IF IsSome(keep_alive_expire(s.cfg))
    THEN KA([s EXCEPT !.ka_timer = reset(@, keep_alive_expire(s.cfg)[1]),
                      !.flags = @ \ {"STARTED"}], "Ok")
    ELSE KA(s, "Ok")
busy_timeout_idle(s) == idle_timeout(s)
busy_timeout(s) ==
    IF IsSome(keep_alive_expire(s.cfg))
    THEN KA([s EXCEPT !.ka_timer = reset(@, keep_alive_expire(s.cfg)[1])], "Ok")
    ELSE KA(s, "Ok")

\* the timer is due before ka_expire: it is set to ka_expire
early_timeout_idle(s) == idle_timeout(s)
early_timeout(s) == KA([s EXCEPT !.ka_timer = reset(@, s.ka_expire)], "Ok")

\* the match on the poll of the Delay
poll_timer(s) ==
    LET s1 == [s EXCEPT !.ka_timer[1] = Delay_poll(@)]
    IN IF s1.ka_timer[1].deadline > 0 THEN KA(s1, "Ok")
       ELSE IF "SHUTDOWN" \in s1.flags THEN shutdown_timeout(s1)
       ELSE IF s1.ka_timer[1].deadline >= s1.ka_expire
            THEN IF s1.state = "None" /\ s1.write_buf = <<>>
                 THEN IF "STARTED" \in s1.flags THEN idle_timeout(s1)
                      ELSE slow_request(s1)
                 ELSE busy_timeout(s1)
       ELSE early_timeout(s1)

poll_keepalive(s) ==
    IF s.ka_timer = None
    THEN IF "SHUTDOWN" \in s.flags
         THEN IF IsSome(client_disconnect_timer)
              THEN poll_timer([s EXCEPT
                                 !.ka_timer = Some(Delay_new(client_disconnect_timer[1]))])
              ELSE KA([s EXCEPT !.flags = @ \cup {"READ_DISCONNECT"}], "Ok")
         ELSE KA(s, "Ok")
    ELSE poll_timer(s)

\* the dispatcher's limit on requests decoded and not yet handled
MAX_PIPELINED_MESSAGES == 16

\* what one poll finds outside the session: rd, what the reads of the
\* socket return before it would block (nothing, "eof" for a read of 0
\* bytes, "err" for a read error, or frames of bytes: a request, an upgrade
\* request, a malformed request, bytes on which the decoder answers an I/O
\* error, any of the last three with a request behind it, and a request
\* with the read of 0 bytes behind it); svc, how the
\* service's future answers when it is polled; fl, what the socket takes of
\* the write buffer; sh, how io.shutdown() answers
Frames == {"req", "upg", "bad", "io"}
Reads == {<<>>, <<"eof">>, <<"err">>} \cup {<<f>> : f \in Frames}
         \cup {<<f, "req">> : f \in Frames \ {"req"}} \cup {<<"req", "eof">>}
Inputs == [rd : Reads,
           svc : {"Ready", "NotReady", "Err"},
           fl : {"all", "none", "err"},
           sh : {"Ready", "NotReady", "Err"}]

\* handle_request: the service is called and its future polled once
handle_request(s, svc) ==
    CASE svc = "Ready" -> send_response(s, 200)
      [] svc = "NotReady" -> [s EXCEPT !.state = "ServiceCall"]
      [] OTHER -> send_response(s, 500)

\* the loop of poll_request over codec.decode: a "req" frame decodes to a
\* request, an "upg" frame to a request of the stream type, a "bad" frame
\* to a parse error, an "io" frame to ParseError::Io, an empty buffer to
\* Ok(None)
RECURSIVE decode_loop(_, _, _)
decode_loop(s, svc, updated) ==
    IF s.read_buf = <<>> THEN [s |-> s, updated |-> updated]
    ELSE LET msg == Head(s.read_buf)
             s0 == [s EXCEPT !.read_buf = Tail(@)]
         IN CASE msg \in {"req", "upg"} ->
                   LET s1 == [s0 EXCEPT !.flags = @ \cup {"STARTED"}]
                   IN IF msg = "upg" /\ s1.upgrade
                      THEN [s |-> [s1 EXCEPT !.messages = Append(@, "Upgrade")],
                            updated |-> TRUE]
                      ELSE IF s1.state = "None"
                      THEN decode_loop(handle_request(s1, svc), svc, TRUE)
                      ELSE decode_loop([s1 EXCEPT !.messages = Append(@, "Item")],
                                       svc, TRUE)
              [] msg = "io" ->
                   [s |-> [client_disconnected(s0) EXCEPT !.error = Some("Io")],
                    updated |-> updated]
              [] OTHER ->
                   [s |-> [s0 EXCEPT !.messages = Append(@, "Error"),
                                     !.flags = @ \cup {"READ_DISCONNECT"},
                                     !.error = Some("Parse")],
                    updated |-> updated]

poll_request(s, svc) ==
    IF Len(s.messages) >= MAX_PIPELINED_MESSAGES \/ ~can_read(s) THEN s
    ELSE LET d == decode_loop(s, svc, FALSE)
         IN IF d.updated /\ d.s.ka_timer # None /\ IsSome(keep_alive_expire(s.cfg))
            THEN [d.s EXCEPT !.ka_expire = keep_alive_expire(s.cfg)[1]]
            ELSE d.s

\* poll_response: the service call in progress is polled; when none is in
\* progress the queued messages are taken in order, a request handed to the
\* service, an error response sent, an upgrade request answered to poll
RECURSIVE poll_response(_, _)
poll_response(s, svc) ==
    IF s.state = "ServiceCall"
    THEN CASE svc = "NotReady" -> s
           [] svc = "Ready" ->
                poll_response(send_response([s EXCEPT !.state = "None"], 200), svc)
           [] OTHER ->
                poll_response(send_response([s EXCEPT !.state = "None"], 500), svc)
    ELSE IF s.messages = <<>> THEN s
    ELSE LET s0 == [s EXCEPT !.messages = Tail(@)]
         IN CASE Head(s.messages) = "Item" ->
                   poll_response(handle_request(s0, svc), svc)
              [] Head(s.messages) = "Upgrade" -> s0
              [] OTHER -> poll_response(send_response(s0, 400), svc)

\* poll_flush: the write buffer is written to the socket, which takes all of
\* it, or nothing (WouldBlock), or fails
poll_flush(s, wr, fl) ==
    IF s.write_buf = <<>> THEN [s |-> s, wire |-> wr, res |-> "Ok"]
    ELSE CASE fl = "all" -> [s |-> [s EXCEPT !.write_buf = <<>>],
                             wire |-> wr \o s.write_buf, res |-> "Ok"]
           [] fl = "none" -> [s |-> s, wire |-> wr, res |-> "Blocked"]
           [] OTHER -> [s |-> s, wire |-> wr, res |-> "Err"]

\* read_available: the socket is read until it would block
read_available(s, rd) ==
    CASE rd = <<>> -> [s |-> s, res |-> "None", reads |-> rd]
      [] rd = <<"eof">> -> [s |-> s, res |-> "Some(true)", reads |-> rd]
      [] rd = <<"err">> -> [s |-> s, res |-> "Err", reads |-> rd]
      [] OTHER ->
           LET eof == rd[Len(rd)] = "eof"
               bytes == IF eof THEN SubSeq(rd, 1, Len(rd) - 1) ELSE rd
           IN [s |-> [s EXCEPT !.read_buf = @ \o bytes],
               res |-> IF eof THEN "Some(true)" ELSE "Some(false)",
               reads |-> rd]

\* what a poll leaves: the session, the bytes on the wire, the state of the
\* write side ("no", "pending", "done"), the frames read, the events the task
\* registered for, and what poll returned ("none" for NotReady)
Polled(s, wr, sd, reads, reg, res) ==
    [s |-> s, wire |-> wr, shut |-> sd, reads |-> reads, reg |-> reg,
     result |-> res]

\* poll with SHUTDOWN set: flush, then shutdown of the write side
poll_down_unflushed(s, wr, sd, reads, reg, in) ==
    IF "WRITE_DISCONNECT" \in s.flags THEN Polled(s, wr, sd, reads, reg, "Ready")
    ELSE LET f == poll_flush(s, wr, in.fl)
         IN IF f.res = "Err" THEN Polled(f.s, f.wire, sd, reads, reg, "Io")
            ELSE CASE in.sh = "Ready" ->
                        Polled(f.s, f.wire, "done", reads, reg, "Ready")
                   [] in.sh = "NotReady" ->
                        Polled(f.s, f.wire, "pending", reads, reg \cup {"write"}, "none")
                   [] OTHER -> Polled(f.s, f.wire, sd, reads, reg, "Io")
poll_down(s, wr, sd, reads, reg, in) ==
    IF "WRITE_DISCONNECT" \in s.flags THEN Polled(s, wr, sd, reads, reg, "Ready")
    ELSE LET f == poll_flush(s, wr, in.fl)
         IN IF f.res = "Err" THEN Polled(f.s, f.wire, sd, reads, reg, "Io")
            ELSE IF f.s.write_buf # <<>>
                 THEN Polled(f.s, f.wire, sd, reads, reg \cup {"write"}, "none")
            ELSE CASE in.sh = "Ready" ->
                        Polled(f.s, f.wire, "done", reads, reg, "Ready")
                   [] in.sh = "NotReady" ->
                        Polled(f.s, f.wire, "pending", reads, reg \cup {"write"}, "none")
                   [] OTHER -> Polled(f.s, f.wire, sd, reads, reg, "Io")

\* self.poll() called from poll once SHUTDOWN is set
poll_again(s, wr, sd, reads, reg, in) ==
    LET k == poll_keepalive(s)
    IN IF k.res # "Ok" THEN Polled(k.s, wr, sd, reads, reg, k.res)
       ELSE poll_down(k.s, wr, sd, reads, reg, in)

\* poll without SHUTDOWN: read, decode, respond, flush, then the decision
poll_up(s, wr, sd, in) ==
    LET r == IF "READ_DISCONNECT" \notin s.flags THEN read_available(s, in.rd)
             ELSE [s |-> s, res |-> "Off", reads |-> <<>>]
        s1 == poll_request(r.s, in.svc)
        s2 == IF r.res = "Some(true)"
              THEN [s1 EXCEPT !.flags = @ \cup {"READ_DISCONNECT"}] ELSE s1
        s3 == poll_response(s2, in.svc)
        f == poll_flush(s3, wr, in.fl)
        is_empty == f.s.state = "None"
        s4 == IF "READ_DISCONNECT" \in f.s.flags /\ is_empty
              THEN [f.s EXCEPT !.flags = @ \cup {"SHUTDOWN"}] ELSE f.s
        reg == (IF r.res \in {"None", "Some(false)"} THEN {"read"} ELSE {})
               \cup (IF f.res = "Blocked" THEN {"write"} ELSE {})
               \cup (IF f.s.state = "ServiceCall" THEN {"svc"} ELSE {})
    IN IF r.res = "Err" THEN Polled(r.s, wr, sd, r.reads, {}, "Io")
       ELSE IF f.res = "Err" THEN Polled(f.s, f.wire, sd, r.reads, reg, "Io")
       ELSE IF "WRITE_DISCONNECT" \in f.s.flags
            THEN Polled(f.s, f.wire, sd, r.reads, reg, "Ready")
       ELSE IF is_empty /\ s4.write_buf = <<>>
            THEN IF IsSome(s4.error)
                 THEN Polled([s4 EXCEPT !.error = None], f.wire, sd, r.reads, reg,
                             s4.error[1])
                 ELSE IF "STARTED" \in s4.flags /\ "KEEPALIVE" \notin s4.flags
                      THEN poll_again([s4 EXCEPT !.flags = @ \cup {"SHUTDOWN"}],
                                      f.wire, sd, r.reads, reg, in)
                 ELSE IF "SHUTDOWN" \in s4.flags
                      THEN poll_again(s4, f.wire, sd, r.reads, reg, in)
                 ELSE Polled(s4, f.wire, sd, r.reads, reg, "none")
       ELSE Polled(s4, f.wire, sd, r.reads, reg, "none")

\* HttpServiceHandlerResponse::poll
poll(s, wr, sd, in) ==
    LET k == poll_keepalive(s)
    IN IF k.res # "Ok" THEN Polled(k.s, wr, sd, <<>>, {}, k.res)
       ELSE IF "SHUTDOWN" \in k.s.flags THEN poll_down(k.s, wr, sd, <<>>, {}, in)
       ELSE poll_up(k.s, wr, sd, in)

\* the session's task is polled when an event it is registered for occurs:
\* at first for being spawned, then when its Delay is reached, when the
\* socket has something to read or takes writes again, when the service's
\* future completes
TimerDue ==
    \E i \in DOMAIN sess.ka_timer :
        sess.ka_timer[i].notify /\ sess.ka_timer[i].deadline = 0

Occurred(in) ==
    (IF in.rd # <<>> THEN {"read"} ELSE {})
    \cup (IF in.fl # "none" THEN {"write"} ELSE {})
    \cup (IF in.svc # "NotReady" THEN {"svc"} ELSE {})

\* what a poll can find: a peer that stalls takes no write and completes no
\* shutdown
Finds ==
    IF peer = "reads" THEN Inputs
    ELSE {in \in Inputs : in.fl = "none" /\ in.sh = "NotReady"}

\* the reads of a session after a poll whose read of the socket returned
\* reads
Read(r, reads) ==
    IF reads = <<>> THEN r
    ELSE [n |-> IF reads[1] \in Frames THEN r.n + 1 ELSE r.n, last |-> reads]

PollStep(in) ==
    /\ result = "none"
    /\ \E o \in {poll(sess, wire, shut, in)} :
          /\ (\E i \in DOMAIN o.reads : o.reads[i] = "upg") => sess.upgrade
          /\ sess' = o.s
          /\ wire' = o.wire
          /\ shut' = o.shut
          /\ rx' = Read(rx, o.reads)
          /\ rx'.n <= MaxReqs
          /\ result' = o.result
          /\ waits' = IF o.result # "none" THEN {}
                      ELSE ((waits \ {"spawn"}) \ Occurred(in)) \cup o.reg
    /\ UNCHANGED peer
    /\ UNCHANGED <<run_vars, lk_vars, addr_vars, dec_vars>>

\* the task is polled for being spawned or for its timer
PollWoken ==
    /\ "spawn" \in waits \/ TimerDue
    /\ \E in \in Finds : PollStep(in)

\* the task is polled for its socket or for the service
PollIo ==
    /\ ~("spawn" \in waits \/ TimerDue)
    /\ \E in \in Finds :
           /\ Occurred(in) \cap waits # {}
           /\ PollStep(in)

\* a second passes; a task that has been woken is polled first
Tick ==
    /\ result = "none"
    /\ "spawn" \notin waits
    /\ ~TimerDue
    /\ LET dec(n) == IF n > 0 THEN n - 1 ELSE 0
           s1 == [sess EXCEPT
                    !.ka_expire = dec(@),
                    !.ka_timer = [i \in DOMAIN @ |->
                                    [@[i] EXCEPT !.deadline = dec(@)]]]
       IN /\ s1 # sess
          /\ sess' = s1
    /\ UNCHANGED <<wire, shut, rx, waits, peer, result>>
    /\ UNCHANGED <<run_vars, lk_vars, addr_vars, dec_vars>>

NextSession == PollWoken \/ PollIo \/ Tick

InitSession ==
    /\ RunOff /\ LkOff /\ AddrOff /\ DecOff
    /\ \E timeout \in {None, client_timer}, upgrade \in BOOLEAN :
          sess = new(HttpProxyService_cfg, timeout, upgrade)
    /\ wire = <<>> /\ shut = "no" /\ rx = NoReads
    /\ waits = {"spawn"} /\ result = "none"
    /\ peer \in {"reads", "stalls"}

SpecSession == InitSession /\ [][NextSession]_vars

\* the sessions made by new from a configuration with KeepAlive::Disabled
InitDisabled ==
    /\ RunOff /\ LkOff /\ AddrOff /\ DecOff
    /\ \E timeout \in {None, client_timer}, upgrade \in BOOLEAN :
          sess = new(KeepAlive_Disabled, timeout, upgrade)
    /\ wire = <<>> /\ shut = "no" /\ rx = NoReads
    /\ waits = {"spawn"} /\ result = "none"
    /\ peer \in {"reads", "stalls"}

SpecSessionDisabled == InitDisabled /\ [][NextSession]_vars

\* the sessions of a peer that stalls; the executor polls a woken task, and
\* time passes
InitStalled == InitSession /\ peer = "stalls"

SpecSessionFair ==
    InitStalled /\ [][NextSession]_vars /\ WF_vars(PollWoken) /\ WF_vars(Tick)

(***************************************************************************)
(* Properties.                                                             *)
(***************************************************************************)
\* the indices of the rules of mode whose run answers Some for cm
Hits(mode, cm) == {i \in 1..Len(mode) : IsSome(Rule_run(mode[i], cm))}
Least(S) == CHOOSE i \in S : \A k \in S : i <= k
UpTo(n) == [j \in 1..n |-> j]

\* C1: lookup returns the name of the lowest-index rule whose run is
\* non-empty and consults exactly the rules up to that one; it returns the
\* no-match error if and only if every rule answers empty (all of them
\* having been consulted).
C1_LookupFirstMatch ==
    lk_pc = "ret" =>
        LET hits == Hits(lk_mode, lk_cm)
        IN /\ (~lk_out.res.ok) <=> (hits = {})
           /\ hits = {} => /\ lk_out.res = Err(NoMatchError)
                           /\ lk_out.consulted = UpTo(Len(lk_mode))
           /\ hits # {} => /\ lk_out.res = Ok(Rule_run(lk_mode[Least(hits)], lk_cm)[1])
                           /\ lk_out.consulted = UpTo(Least(hits))

\* C1, witness: a mode of two rules that both match, the first one's name
\* returned, the second rule not consulted, and the two rules swapped giving
\* another name
C1_Witness ==
    /\ lk_pc = "ret"
    /\ Len(lk_mode) = 2
    /\ Hits(lk_mode, lk_cm) = {1, 2}
    /\ lk_out.res = Ok(Rule_run(lk_mode[1], lk_cm)[1])
    /\ lk_out.consulted = <<1>>
    /\ lookup(<<lk_mode[2], lk_mode[1]>>, lk_cm).res # lk_out.res

\* C2: under the built-in GLOBAL mode lookup returns the fixed name "DIRECT"
\* for every ConnectionMeta, never the no-match error.
C2_GlobalFixedName ==
    (lk_pc = "ret" /\ lk_mode = build_modes(config)["GLOBAL"]) =>
        lk_out.res = Ok("DIRECT")

\* C2, witness: GLOBAL looked up with the udp flag set, an empty host and no
\* addresses
C2_Witness ==
    /\ lk_pc = "ret"
    /\ lk_mode = build_modes(config)["GLOBAL"]
    /\ lk_cm = [udp |-> TRUE, host |-> "", src_addr |-> None, dst_addr |-> None]
    /\ lk_out.res.ok

\* C3: under the built-in DIRECT mode lookup returns "DIRECT" for every
\* ConnectionMeta, never the no-match error.
C3_DirectName ==
    (lk_pc = "ret" /\ lk_mode = build_modes(config)["DIRECT"]) =>
        (lk_out.res.ok /\ lk_out.res.v = "DIRECT")

\* C3, witness: DIRECT looked up for a udp ConnectionMeta with a host and
\* both addresses
C3_Witness ==
    /\ lk_pc = "ret"
    /\ lk_mode = build_modes(config)["DIRECT"]
    /\ lk_cm.udp /\ lk_cm.host = "b.org"
    /\ IsSome(lk_cm.src_addr) /\ IsSome(lk_cm.dst_addr)
    /\ lk_out.res.v = "DIRECT"

\* everything outside connection c: the listeners, run, the process and the
\* other connections
OthersUnchanged(c) ==
    /\ vf' = vf
    /\ run_pc' = run_pc
    /\ run_res' = run_res
    /\ alive' = alive
    /\ \A d \in ConnIds \ {c} : conns'[d] = conns[d]

\* the task ended on a failure: an error return, the panic of unwrap, or a
\* relay that select ended with an Err
Failed(cn) ==
    \/ cn.cause \in {"read", "meta", "nomatch", "notfound", "unwrap", "dial"}
    \/ cn.cause = "relay" /\ ~cn.outcome[1].ok

\* C4: a step in which one connection's task ends on a failure (read or
\* decode failure, metadata extraction failure, no rule match, unregistered
\* outbound name, dial error, relay I/O error) changes nothing but that
\* connection: the listeners, run, the process and the other connections stay
\* as they were.
C4_FailureIsolated ==
    [][\A c \in ConnIds :
         (~Ended(conns[c]) /\ Ended(conns'[c]) /\ Failed(conns'[c]))
         => OthersUnchanged(c)]_vars

\* C5: a connection whose rule lookup returned the no-match error is closed:
\* its task has returned with the inbound stream closed once, no registry
\* answer bound, no dial called, no outbound stream and no relay started.
C5_NoMatchClosesWithoutDial ==
    \A c \in ConnIds :
        LET cn == conns[c]
        IN (IsSome(cn.found) /\ ~cn.found[1].ok) =>
              /\ cn.pc = "done" /\ cn.cause = "nomatch"
              /\ cn.in_closed = 1
              /\ cn.outbound = "" /\ cn.dials = 0
              /\ ~cn.out_open /\ cn.out_closed = 0
              /\ cn.l2r = "idle" /\ cn.r2l = "idle" /\ cn.outcome = None

\* C5, witness: under a DIRECT mode with an empty rule list a connection got
\* the no-match error and was closed, the process and the listener unharmed
C5_Witness ==
    \E c \in ConnIds :
        /\ modes["DIRECT"] = <<>>
        /\ conns[c].found = Some(Err(NoMatchError))
        /\ conns[c].pc = "done"
        /\ alive /\ vf[1].state = "listening"

\* C6: the step in which the name returned by lookup is found not to be a
\* key of the registry closes that connection, with no dial and no relay,
\* and leaves the listener, run and the process as they were.
C6_RegistryMissClosesOnly ==
    [][\A c \in ConnIds :
         (/\ conns[c].pc = "resolve"
          /\ IsSome(conns'[c].found)
          /\ conns'[c].found[1].ok
          /\ conns'[c].found[1].v \notin DOMAIN proxies)
         => /\ conns'[c].pc = "done"
            /\ conns'[c].in_closed = 1
            /\ conns'[c].dials = 0 /\ ~conns'[c].out_open
            /\ conns'[c].l2r = "idle" /\ conns'[c].r2l = "idle"
            /\ OthersUnchanged(c)]_vars

\* C6, witness: after one connection ended on a registry miss the listener
\* accepted another one, which was routed, dialed and is being relayed
C6_Witness ==
    \E c, d \in ConnIds :
        /\ conns[c].cause = "notfound" /\ conns[c].pc = "done"
        /\ conns[d].after_miss
        /\ conns[d].pc = "relay"
        /\ vf[1].state = "listening"

\* C7: the relay is over as soon as either copy has ended and not before: no
\* task waits in select with a copy that has ended, and when select has
\* returned exactly one copy had ended, the other still running.
C7_RelayEndsWithFirstCopy ==
    \A c \in ConnIds :
        LET cn == conns[c]
        IN /\ cn.pc = "relay" => (cn.l2r = "run" /\ cn.r2l = "run")
           /\ cn.cause = "relay" <=> cn.outcome # None
           /\ cn.outcome # None =>
                \/ cn.l2r \in {"eof", "err"} /\ cn.r2l = "run"
                \/ cn.r2l \in {"eof", "err"} /\ cn.l2r = "run"

\* C7, witness: a relay ended by end-of-stream on the outbound-to-inbound
\* copy while the inbound-to-outbound copy was still running
C7_Witness ==
    \E c \in ConnIds :
        /\ conns[c].cause = "relay"
        /\ conns[c].r2l = "eof" /\ conns[c].l2r = "run"

\* C8: no stream is closed twice, and once select has returned, by
\* end-of-stream or by error on either side, the inbound and the outbound
\* stream have each been closed exactly once.
C8_BothClosedOnce ==
    \A c \in ConnIds :
        LET cn == conns[c]
        IN /\ cn.in_closed <= 1 /\ cn.out_closed <= 1
           /\ cn.outcome # None =>
                (cn.in_closed = 1 /\ cn.out_closed = 1 /\ ~cn.out_open)

\* C8, witness: a relay ended by an error on the inbound-to-outbound copy,
\* both streams closed
C8_Witness ==
    \E c \in ConnIds :
        /\ conns[c].outcome = Some([side |-> "Left", ok |-> FALSE])
        /\ conns[c].in_closed = 1 /\ conns[c].out_closed = 1

\* C9: the step in which a copy fails ends the relay: select returns that
\* side's Err (a copy that ends by end-of-stream returns Ok), the task
\* returns, dial is not called again and nothing outside the connection
\* changes.
C9_RelayErrorEndsSession ==
    [][\A c \in ConnIds :
         conns[c].pc = "relay" =>
            /\ (conns'[c].l2r = "err" \/ conns'[c].r2l = "err") =>
                  /\ conns'[c].pc = "done"
                  /\ conns'[c].outcome # None /\ ~conns'[c].outcome[1].ok
                  /\ conns'[c].dials = conns[c].dials
                  /\ OthersUnchanged(c)
            /\ (conns'[c].l2r = "eof" \/ conns'[c].r2l = "eof") =>
                  /\ conns'[c].pc = "done"
                  /\ conns'[c].outcome # None /\ conns'[c].outcome[1].ok]_vars

\* C9, witness: a relay ended by an error on the outbound-to-inbound copy
\* after a single dial, the listener still accepting
C9_Witness ==
    \E c \in ConnIds :
        /\ conns[c].pc = "done" /\ conns[c].r2l = "err"
        /\ conns[c].outcome = Some([side |-> "Right", ok |-> FALSE])
        /\ conns[c].dials = 1
        /\ alive /\ run_pc = "select"

\* C10: run never returns success, and a listener future that has returned
\* (bind failure, end of the accept loop, a clean Ok) means run has returned
\* an error, with every other listener future dropped.
C10_RunRacesListeners ==
    /\ run_res # "ok"
    /\ \A l \in DOMAIN vf :
         vf[l].state \in {"ok", "err"} =>
            /\ run_pc = "done" /\ run_res = "err"
            /\ \A k \in DOMAIN vf \ {l} : vf[k].state = "dropped"

\* C10, witness: an HTTP listener's accept loop ended with Ok, run returned
\* an error and another listener was dropped
C10_Witness ==
    \E l, k \in DOMAIN vf :
        /\ vf[l].kind = "HTTP" /\ vf[l].state = "ok"
        /\ vf[k].state = "dropped"
        /\ run_pc = "done" /\ run_res = "err"

\* the names of the Direct entries of the configuration
DirectNames(cfg) ==
    {cfg.proxies[i].name : i \in {j \in DOMAIN cfg.proxies : cfg.proxies[j].kind = "Direct"}}

\* C11: whenever a listener future exists, has been polled or has bound its
\* socket, the outbound registry holds every Direct entry of the
\* configuration and the mode table holds its three modes: both are built
\* before the first listener is created.  (Neither build has a failing case
\* in the code, so the failure half of the claim has no run to be checked on.)
C11_BuiltBeforeListeners ==
    (vf # <<>> \/ run_pc \in {"select", "done"}) =>
        /\ DOMAIN proxies = DirectNames(config)
        /\ DOMAIN modes = {"GLOBAL", "DIRECT", "RULE"}
        /\ modes["GLOBAL"] = <<Global>> /\ modes["DIRECT"] = <<Direct>>

\* C11, witness: a listener has bound its socket and is accepting, over a
\* registry with an entry and the built mode table
C11_Witness ==
    \E l \in DOMAIN vf :
        /\ vf[l].state = "listening"
        /\ "DIRECT" \in DOMAIN proxies
        /\ modes["RULE"] = <<>>

\* C12: once the registry is built every name in it stands for the first
\* entry of the configuration registered under that name, and a
\* configuration that registers a name twice makes run return an error
\* before any listener is created.
C12_DuplicateNameRejected ==
    run_pc # "proxies" =>
        /\ \A n \in DOMAIN proxies :
             proxies[n] = Least({i \in DOMAIN config.proxies :
                                   /\ config.proxies[i].kind = "Direct"
                                   /\ config.proxies[i].name = n})
        /\ (\E i, j \in DOMAIN config.proxies :
               /\ i < j
               /\ config.proxies[i].kind = "Direct" /\ config.proxies[j].kind = "Direct"
               /\ config.proxies[i].name = config.proxies[j].name)
           => (run_res = "err" /\ vf = <<>>)

\* a whole request with a host header, by the version of its request line
Request11 == <<"GET11", "Host", "CRLF">>
Request10 == <<"GET10", "Host", "CRLF">>
IsStrictPrefix(p, s) == Len(p) < Len(s) /\ p = SubSeq(s, 1, Len(p))

\* C18: on a buffer that is a strict prefix of a request decode answers
\* None and leaves the buffer as it was; on a buffer that holds one whole
\* HTTP/1.1 request it answers that one request (and None when called
\* again); on a whole request of another version it answers an error.
C18_DecodeClassifies ==
    dec_pc \in {"None", "Err", "panic"} =>
        /\ (IsStrictPrefix(dec_in, Request11) \/ IsStrictPrefix(dec_in, Request10)) =>
              /\ dec_out = <<[ret |-> "None", req |-> NoReq]>>
              /\ dec_src = dec_in
        /\ dec_in = Request11 =>
              /\ dec_pc = "None"
              /\ dec_out = <<[ret |-> "Some",
                              req |-> [version |-> 1, headers |-> <<"Host">>,
                                       body |-> <<>>]],
                             [ret |-> "None", req |-> NoReq]>>
        /\ dec_in = Request10 =>
              /\ dec_pc = "Err"
              /\ dec_out = <<[ret |-> "Err", req |-> NoReq]>>

\* C18, witness: the buffer held one whole HTTP/1.1 request, decode returned
\* it and then None
C18_Witness ==
    /\ dec_in = Request11
    /\ dec_pc = "None"
    /\ Len(dec_out) = 2 /\ dec_out[1].ret = "Some"

\* C19: when the buffer holds two whole HTTP/1.1 requests back to back, the
\* calls of decode return the first request, then the second, each with none
\* of the other's bytes as its body, and then None.
C19_PipelinedInOrder ==
    (dec_in = Request11 \o Request11 /\ dec_pc \in {"None", "Err", "panic"}) =>
        LET one == [ret |-> "Some",
                    req |-> [version |-> 1, headers |-> <<"Host">>, body |-> <<>>]]
        IN dec_out = <<one, one, [ret |-> "None", req |-> NoReq]>>

\* the place of the last colon of a text, 0 when it has none
LastColon(s) ==
    IF \E i \in DOMAIN s : s[i] = Colon
    THEN CHOOSE i \in DOMAIN s : s[i] = Colon /\ \A j \in DOMAIN s : j > i => s[j] # Colon
    ELSE 0
\* the piece spells a 16-bit port
IsPort(part) ==
    /\ Len(part) = 1
    /\ IsSome(Decimal(part[1]))
    /\ Decimal(part[1])[1] \in 0..65535
IsLiteralSocketAddr(s) ==
    Len(s) = 3 /\ s[1] = "10.0.0.1" /\ s[2] = Colon /\ IsPort(<<s[3]>>)

\* C20: a text that is a literal socket address parses to the SocketAddr
\* variant; any other text is split at its last colon and parses to
\* DomainName(left, port) when the right piece is a 16-bit port, and to the
\* parse error in every other case.
C20_AddressParse ==
    (addr_pc = "ret" /\ addr_fn = "Address") =>
        IF IsLiteralSocketAddr(addr_s)
        THEN addr_out.ok /\ addr_out.v.variant = "SocketAddr"
        ELSE LET c == LastColon(addr_s)
                 left == SubSeq(addr_s, 1, c - 1)
                 right == SubSeq(addr_s, c + 1, Len(addr_s))
             IN IF c > 0 /\ IsPort(right)
                THEN /\ addr_out.ok
                     /\ addr_out.v = [variant |-> "DomainName", host |-> left,
                                      port |-> Decimal(right[1])[1]]
                ELSE ~addr_out.ok /\ addr_out.v = "AddressError"

\* the timer of a session has expired
TimerExpired == sess.ka_timer # None /\ sess.ka_timer[1].deadline = 0

\* how many times a status occurs in a sequence of responses
Count(status, responses) ==
    Cardinality({i \in DOMAIN responses : responses[i] = status})

C14_Pre == result = "none" /\ "SHUTDOWN" \in sess.flags /\ TimerExpired

C14_ShutdownTimerAborts ==
    [][C14_Pre =>
         \/ /\ result' = "DisconnectTimeout"
            /\ sess'.ka_timer = <<[deadline |-> 0, notify |-> FALSE]>>
            /\ sess'.write_buf = sess.write_buf
            /\ wire' = wire /\ shut' = shut
         \/ /\ sess' = [sess EXCEPT !.ka_expire = sess'.ka_expire]
            /\ UNCHANGED <<wire, shut, rx, waits, result>>]_vars

\* the session was aborted by the timer with a response still to flush
C14_Witness ==
    /\ result = "DisconnectTimeout"
    /\ "SHUTDOWN" \in sess.flags
    /\ sess.write_buf # <<>>

\* C15 as stated: if the timer expires on a session on which no request has
\* been decoded (STARTED not set), that poll emits exactly one 408 and sets
\* SHUTDOWN, and the 408 is flushed before the write side is shut down.
C15_PreStated == result = "none" /\ "STARTED" \notin sess.flags /\ TimerExpired

C15_Post ==
    /\ Count(408, wire \o sess.write_buf) = 1
    /\ "SHUTDOWN" \in sess.flags
    /\ shut # "no" => Count(408, wire) = 1 /\ sess.write_buf = <<>>

C15_Pre == C15_PreStated /\ "SHUTDOWN" \notin sess.flags

C15_Once ==
    /\ Count(408, wire \o sess.write_buf) <= 1
    /\ shut # "no" => Count(408, sess.write_buf) = 0

BadDecoded == sess.error = Some("Parse") \/ result = "Parse"

\* C16: a request that fails to decode with a non-I/O parse error produces
\* exactly one 400 and stops further reading, and the session, unless an
\* I/O error ends it, ends through the normal shutdown path: the 400
\* flushed, then the write side shut down, and poll returning Ready.
C16_BadRequestShutsDown ==
    BadDecoded =>
        /\ Count(400, wire \o sess.write_buf) = 1
        /\ "READ_DISCONNECT" \in sess.flags
        /\ result \notin {"none", "Io"} =>
               /\ result = "Ready"
               /\ shut = "done"
               /\ Count(400, wire) = 1

\* C17: every session that enters the shutting-down state (SHUTDOWN set,
\* poll not yet returned) eventually ends: poll returns, Ready after the
\* flush and the shutdown of the write side, or an error when the timer
\* fires.
C17_ShutdownEnds ==
    ("SHUTDOWN" \in sess.flags /\ result = "none") ~> (result # "none")

\* C21: for every text that parses to an Address, to_string of the Address
\* terminates, and parsing the string yields an address of the same variant,
\* host and port.
C21_RoundTrip ==
    (addr_fn = "Address" /\ addr_pc \in {"shown", "overflow"}) =>
        /\ addr_str.ok
        /\ addr_back.ok
        /\ addr_back.v = addr_out.v

\* C22: the resolution of an address never succeeds with an empty list: a
\* literal socket address gives the list of itself alone whatever the
\* resolver would answer, a domain name gives the resolver's addresses, each
\* with the port of the address, and fails when the resolver fails or
\* answers no address.
C22_ResolveNeverEmpty ==
    addr_pc \in {"to_socket_addrs", "resolve"} =>
        LET a == addr_out.v
        IN IF a.variant = "SocketAddr"
           THEN addr_res = Ok(<<SocketAddr_new(a.host[1], a.port)>>)
           ELSE /\ addr_res.ok =>
                     /\ addr_res.v # <<>>
                     /\ \A i \in DOMAIN addr_res.v : addr_res.v[i].port = a.port
                /\ (a.host # <<"10.0.0.1">> /\ (~addr_ans.ok \/ addr_ans.ips = <<>>))
                     => ~addr_res.ok

\* C23: is_host of a ConnectionMeta is true exactly when its host string is
\* not empty, whatever its udp flag and its source and destination
\* addresses.
C23_IsHost ==
    IsSome(lk_host) => (lk_host[1] <=> lk_cm.host # "")

\* is_host answered true for a udp connection that has no address
C23_Witness ==
    /\ lk_host = Some(TRUE)
    /\ lk_cm.udp
    /\ lk_cm.src_addr = None /\ lk_cm.dst_addr = None

\* C24: whenever SHUTDOWN is set on a session that is still running and a
\* timer is armed, that timer was armed with the shutdown-grace interval:
\* the configuration has one, and the timer is due within it.
C24_ShutdownTimerIsGrace ==
    (result = "none" /\ "SHUTDOWN" \in sess.flags /\ sess.ka_timer # None)
        => /\ IsSome(client_disconnect_timer)
           /\ sess.ka_timer[1].deadline <= client_disconnect_timer[1]

\* the frames a step takes out of the read buffer: those of the buffer and
\* of the step's reads that the buffer no longer holds
Consumed ==
    LET got == IF rx' = rx THEN <<>>
               ELSE SelectSeq(rx'.last, LAMBDA f : f \in Frames)
        all == sess.read_buf \o got
    IN SubSeq(all, 1, Len(all) - Len(sess'.read_buf))

\* a step decodes a request
RequestDecoded == \E i \in DOMAIN Consumed : Consumed[i] \in {"req", "upg"}

\* the timer is due before the keep-alive deadline, on a session that is not
\* shutting down
C25_Early ==
    /\ result = "none"
    /\ "SHUTDOWN" \notin sess.flags
    /\ TimerExpired
    /\ sess.ka_expire > 0

\* C25: on a session with a keep-alive timer, a poll that decodes a request
\* moves ka_expire to the present plus the keep-alive period; and a poll on
\* which the timer is due before ka_expire sets the timer to ka_expire and
\* does not shut the session down for it: no disconnect timeout, no 408, and
\* SHUTDOWN only if the read side has closed.
C25_KeepAliveMoves ==
    [][/\ (sess.ka_timer # None /\ RequestDecoded)
            => sess'.ka_expire = keep_alive
       /\ (C25_Early /\ sess'.ka_timer # sess.ka_timer)
            => /\ sess'.ka_timer = <<[deadline |-> sess.ka_expire, notify |-> TRUE]>>
               /\ result' \notin {"DisconnectTimeout", "Unknown"}
               /\ Count(408, wire' \o sess'.write_buf) = Count(408, wire \o sess.write_buf)
               /\ sess'.flags \ sess.flags \subseteq
                      {"READ_DISCONNECT", "WRITE_DISCONNECT", "SHUTDOWN"}
               /\ ("SHUTDOWN" \in sess'.flags => "READ_DISCONNECT" \in sess'.flags)
               /\ ("WRITE_DISCONNECT" \in sess'.flags => result' \in {"Ready", "Io"})]_vars

\* a request has moved ka_expire, and the timer is due before it
C25_Witness == C25_Early /\ "STARTED" \in sess.flags /\ sess.ka_timer[1].notify

\* the keep-alive timer is due at or after ka_expire on a session that has
\* decoded a request and is not shutting down
C26_Due ==
    /\ result = "none"
    /\ "SHUTDOWN" \notin sess.flags
    /\ "STARTED" \in sess.flags
    /\ TimerExpired
    /\ sess.ka_expire = 0

\* nothing is outstanding: no service call in progress, nothing to write
C26_Idle == sess.state = "None" /\ sess.write_buf = <<>>

\* C26: when the keep-alive timer is due at or after ka_expire on a session
\* that has decoded a request: if no service call is in progress and the
\* write buffer is empty, that poll sets SHUTDOWN; otherwise the expiry does
\* not shut the session down (no disconnect timeout, SHUTDOWN only if the
\* read side has closed) and the timer is set to a new keep-alive deadline.
C26_KeepAliveExpiry ==
    [][(C26_Due /\ sess'.ka_timer # sess.ka_timer) =>
          IF C26_Idle
          THEN "SHUTDOWN" \in sess'.flags
          ELSE /\ sess'.ka_timer = <<[deadline |-> keep_alive, notify |-> TRUE]>>
               /\ result' \notin {"DisconnectTimeout", "Unknown"}
               /\ ("SHUTDOWN" \in sess'.flags => "READ_DISCONNECT" \in sess'.flags)]_vars

\* the timer was due with a service call in progress
C26_Witness == C26_Due /\ sess.state = "ServiceCall" /\ sess.ka_timer[1].notify

\* the session is shutting down and the peer is not write-disconnected
C27_ShuttingDown ==
    "SHUTDOWN" \in sess.flags /\ "WRITE_DISCONNECT" \notin sess.flags

\* C27: while a session is shutting down and the peer is not
\* write-disconnected, the shutdown of the write side is issued only with
\* the write buffer empty, and poll returns Ready only once that shutdown
\* has answered Ready; while bytes remain in the write buffer no shutdown
\* has been issued and poll has not returned Ready.
C27_FlushThenShutdown ==
    C27_ShuttingDown =>
        /\ shut # "no" => sess.write_buf = <<>>
        /\ result = "Ready" => shut = "done"
        /\ sess.write_buf # <<>> => shut = "no" /\ result # "Ready"

\* a response waited in the write buffer when the shutdown began; it was
\* flushed, then the write side shut down, and poll returned Ready
C27_Witness ==
    /\ C27_ShuttingDown
    /\ Count(200, wire) >= 1
    /\ sess.write_buf = <<>>
    /\ shut = "done"
    /\ result = "Ready"

\* a step's read of the socket fails
ReadFailed == rx' # rx /\ rx'.last = <<"err">>

\* a step's decoding answers an I/O error
DecodeFailed == \E i \in DOMAIN Consumed : Consumed[i] = "io"

\* a read error makes poll return it at once: nothing is decoded, answered
\* or written
C28_ReadError ==
    ReadFailed =>
        /\ result' = "Io"
        /\ wire' = wire /\ shut' = shut
        /\ sess'.read_buf = sess.read_buf
        /\ sess'.write_buf = sess.write_buf
        /\ sess'.messages = sess.messages
        /\ sess'.state = sess.state

\* a decoder I/O error ends the decoding, marks both sides disconnected and
\* the session completes on that poll
C28_DecodeError ==
    DecodeFailed =>
        /\ Consumed[Len(Consumed)] = "io"
        /\ {"READ_DISCONNECT", "WRITE_DISCONNECT"} \subseteq sess'.flags
        /\ result' \in {"Ready", "Io"}
        /\ shut' = shut

ReadZero == rx' # rx /\ rx'.last[Len(rx'.last)] = "eof"

\* C29: a read of 0 bytes sets READ_DISCONNECT, and a poll that begins with
\* READ_DISCONNECT or SHUTDOWN set reads nothing from the socket and decodes
\* nothing from the read buffer.
C29_ReadsGated ==
    [][/\ ReadZero => "READ_DISCONNECT" \in sess'.flags
       /\ ("READ_DISCONNECT" \in sess.flags \/ "SHUTDOWN" \in sess.flags)
            => rx' = rx /\ sess'.read_buf = sess.read_buf]_vars

\* the read side is closed with a frame still in the read buffer, and the
\* session is polled again for the service call in progress
C29_Witness ==
    /\ "READ_DISCONNECT" \in sess.flags
    /\ "SHUTDOWN" \notin sess.flags
    /\ sess.read_buf # <<>>
    /\ "svc" \in waits
    /\ result = "none"

\* an upgrade request has been decoded on a session that has an upgrade
\* handler: its last read of the socket began with one
UpgradeDecoded == sess.upgrade /\ rx.last # <<>> /\ rx.last[1] = "upg"

C31_RuleModeEmpty ==
    [][(run_pc = "modes" /\ run_pc' # "modes") =>
          /\ run_pc' = "inbounds"
          /\ run_res' = "none"
          /\ DOMAIN modes' = {"GLOBAL", "DIRECT", "RULE"}
          /\ modes'["RULE"] = <<>>
          /\ \A cm \in ConnectionMeta :
                lookup(modes'["RULE"], cm) =
                    [res |-> Err(NoMatchError), consulted |-> <<>>]]_vars

\* the modes were built from a configuration that has rule entries
C31_Witness ==
    /\ run_pc = "inbounds"
    /\ config.rules # <<>>
    /\ DOMAIN modes = {"GLOBAL", "DIRECT", "RULE"}
    /\ modes["RULE"] = <<>>

\* the tables as run builds them from the configuration
C32_TablesBuilt ==
    /\ modes = build_modes(config)
    /\ proxies = setup_proxies(config.proxies, 1, EmptyMap)

\* C32: once run has built the registry and the mode table no step changes
\* them, the rule lookup and the registry lookup of a connection task
\* included; and every step of a connection task, in every interleaving of
\* the tasks and the listeners, is taken with the tables that were built
\* before the listeners started.
C32_TablesReadOnly ==
    [][/\ run_pc \in {"inbounds", "select", "done"}
            => modes' = modes /\ proxies' = proxies
       /\ (\E c \in ConnIds : conns'[c] # conns[c])
            => C32_TablesBuilt /\ C32_TablesBuilt']_vars

\* two connections have been routed, one after the other had begun its
\* relay, and the tables are as they were built
C32_Witness ==
    /\ \E c, d \in ConnIds :
          /\ c # d
          /\ conns[c].pc = "relay"
          /\ conns[d].pc = "dial"
    /\ C32_TablesBuilt
    /\ DOMAIN proxies # {}

\* C33: every call of decode returns None, one request or an error; on a
\* buffer that holds a whole HTTP/1.1 request head with no host header the
\* call returns an error and the caller is not left in a panic.
C33_DecodeTotal ==
    /\ dec_pc # "panic"
    /\ \A k \in DOMAIN dec_out : dec_out[k].ret \in {"None", "Some", "Err"}
    /\ (dec_in = <<"GET11", "CRLF">> /\ dec_out # <<>>) => dec_out[1].ret = "Err"

\* C34: a connection whose ConnectionMeta has no dst_addr is dropped: its
\* task returns with no dial called and does not panic, whatever the rule
\* lookup and the registry answered.
C34_AbsentAddrDropped ==
    \A c \in ConnIds :
       /\ conns[c].pc # "panicked"
       /\ conns[c].cause # "unwrap"

\* C35: a listener that has bound its socket stays in its accept loop over
\* every accept that succeeds, each of which spawns exactly one connection
\* task and leaves the listeners and run as they were; a listener future
\* returns only an error from its first poll (bind failed) or Ok from its
\* accept loop (an accept failed or the incoming stream ended), and the step
\* in which it returns is the step in which run returns an error.
C35_ListenerLoop ==
    [][/\ \A l \in DOMAIN vf :
            (l \in DOMAIN vf' /\ vf[l].kind # "TUN"
               /\ vf'[l].state # vf[l].state) =>
                /\ vf[l].state = "created" =>
                      vf'[l].state \in {"listening", "err", "dropped"}
                /\ vf[l].state = "listening" =>
                      vf'[l].state \in {"ok", "dropped"}
                /\ vf[l].state \notin {"ok", "err", "dropped"}
                /\ vf'[l].state \in {"ok", "err"} =>
                      run_pc' = "done" /\ run_res' = "err"
       /\ n_accepted' # n_accepted =>
            /\ n_accepted' = n_accepted + 1
            /\ vf' = vf /\ run_pc' = run_pc
            /\ \E l \in DOMAIN vf : vf[l].state = "listening"
            /\ \E c \in ConnIds :
                  /\ conns[c].pc = "none" /\ conns'[c].pc # "none"
                  /\ \A d \in ConnIds \ {c} : conns'[d] = conns[d]]_vars

\* an HTTP listener accepted two connections, each given its own task, and
\* then left its loop on a failed accept: run has returned an error
C35_Witness ==
    /\ \E l \in DOMAIN vf : vf[l].kind = "HTTP" /\ vf[l].state = "ok"
    /\ n_accepted = MaxConns
    /\ \A c \in ConnIds : conns[c].pc # "none"
    /\ run_pc = "done" /\ run_res = "err"

\* C36: the step in which a connection of the HTTP listener is routed binds
\* the answer of lookup over the entry "DIRECT" of the mode table for that
\* connection's host, whatever the mode of the configuration is and
\* whatever the entries "GLOBAL" and "RULE" would have answered.
C36_AlwaysDirectMode ==
    [][\A c \in ConnIds :
         (conns[c].pc = "resolve" /\ conns'[c].pc # "resolve") =>
            \E cm \in ConnectionMeta :
               /\ cm.host = conns[c].host /\ ~cm.udp
               /\ conns'[c].found = Some(lookup(modes["DIRECT"], cm).res)]_vars

\* the configuration says global, the entry "GLOBAL" answers every
\* connection, and a connection was refused by the empty entry "DIRECT"
C36_Witness ==
    \E c \in ConnIds :
        /\ config.mode = "global"
        /\ modes["DIRECT"] = <<>> /\ modes["GLOBAL"] = <<Global>>
        /\ conns[c].found = Some(Err(NoMatchError))
        /\ conns[c].cause = "nomatch"

\* the flags of a session's progress
C37_Lifecycle == {"STARTED", "SHUTDOWN", "READ_DISCONNECT", "WRITE_DISCONNECT"}

\* C37: no step removes STARTED, SHUTDOWN, READ_DISCONNECT or
\* WRITE_DISCONNECT from the flags of the session; a step of a session that
\* has SHUTDOWN set reads nothing from the socket, decodes nothing and hands
\* nothing to the service; and a session whose poll has returned Ready or an
\* error keeps that result.
C37_FlagsMonotonic ==
    [][/\ (sess.flags \cap C37_Lifecycle) \subseteq sess'.flags
       /\ "SHUTDOWN" \in sess.flags =>
             /\ rx' = rx
             /\ sess'.read_buf = sess.read_buf
             /\ sess'.messages = sess.messages
             /\ sess'.state = sess.state
       /\ result # "none" => result' = result]_vars

\* a session that set SHUTDOWN with a frame still undecoded in its read
\* buffer has been polled again and waits for the shutdown of its write
\* side, the frame left where it was
C37_Witness ==
    /\ {"STARTED", "SHUTDOWN", "READ_DISCONNECT"} \subseteq sess.flags
    /\ sess.read_buf # <<>>
    /\ shut = "pending"
    /\ result = "none"

\* C38: with no client disconnect timeout configured, the poll that finds
\* the keep-alive timer due at or after ka_expire on a session that has
\* decoded a request, with no service call in progress and an empty write
\* buffer, sets SHUTDOWN and WRITE_DISCONNECT and returns Ready: nothing is
\* read, nothing is written to the socket and no shutdown of the write side
\* is issued.
C38_ExpiryWithoutGrace ==
    [][(client_disconnect = 0 /\ C26_Due /\ C26_Idle) =>
          /\ {"SHUTDOWN", "WRITE_DISCONNECT"} \subseteq sess'.flags
          /\ result' = "Ready"
          /\ wire' = wire
          /\ shut' = shut
          /\ rx' = rx
          /\ sess'.ka_timer = <<Delay_poll(sess.ka_timer[1])>>]_vars

\* a session that had answered a request was completed by the expiry of its
\* keep-alive timer: the read side was never closed and no shutdown issued
C38_Witness ==
    /\ result = "Ready"
    /\ {"STARTED", "SHUTDOWN", "WRITE_DISCONNECT"} \subseteq sess.flags
    /\ "READ_DISCONNECT" \notin sess.flags
    /\ shut = "no"
    /\ Count(200, wire) >= 1
    /\ TimerExpired

\* a session is between two polls with a request decoded, no service call
\* in progress, nothing to write and no error stored
C39_Served ==
    /\ result = "none"
    /\ "STARTED" \in sess.flags
    /\ sess.state = "None"
    /\ sess.write_buf = <<>>
    /\ sess.error = None

\* C39: a session whose configuration does not enable keep-alive is never
\* left by a poll waiting with a request decoded, no service call in
\* progress, an empty write buffer and no stored error unless SHUTDOWN is
\* set and the shutdown of the write side has been issued; a poll that
\* completes such a session without a peer gone has shut the write side
\* down; and from SHUTDOWN on no step reads or decodes a request.
C39_NoKeepAliveShutsDown ==
    [][~sess.cfg.ka_enabled =>
          /\ C39_Served' =>
                "SHUTDOWN" \in sess'.flags /\ shut' = "pending"
          /\ (result' = "Ready" /\ "WRITE_DISCONNECT" \notin sess'.flags) =>
                "SHUTDOWN" \in sess'.flags /\ shut' = "done"
          /\ "SHUTDOWN" \in sess.flags =>
                rx' = rx /\ sess'.read_buf = sess.read_buf]_vars

\* a session without keep-alive answered its one request and, in the poll
\* that flushed the answer, shut its write side down and completed
C39_Witness ==
    /\ ~sess.cfg.ka_enabled
    /\ rx.n = 1
    /\ wire = <<200>>
    /\ {"STARTED", "SHUTDOWN"} \subseteq sess.flags
    /\ "WRITE_DISCONNECT" \notin sess.flags
    /\ shut = "done"
    /\ result = "Ready"

====
